---- MODULE Spec2Model ----
(***************************************************************************)
(* Model of the omc-translations scripts: the file cache under             *)
(* languages/, the batch scripts that fill it, the git publishers and the  *)
(* daily orchestrator.                                                     *)
(***************************************************************************)
EXTENDS Integers, Sequences, FiniteSets, TLC

VARIABLES
    fs,       \* the cache tree: path -> content, for the files that exist
    proc,     \* the script process that is running (Idle when none)
    exit,     \* exit code and last stdout line of the last finished process
    lastOp,   \* what the most recent per-item operation did
    faults,   \* how many more failures the environment may still inject
    upv,      \* version of the upstream (site) content
    latest,   \* the contest the home page shows as most recently ended
    runs,     \* number of top-level script invocations so far
    snap,     \* the cache tree before the run (or driver statement) in progress began
    git,      \* the repository: staged tree, local HEAD tree, tree on origin
    lastPub,  \* what the most recent publish operation did
    now,      \* the wall clock in JST: day of month and minute of the day
    trail,    \* the statements the running driver script has executed so far
    peer,     \* a second process working on the same cache tree (Idle when none)
    since     \* the wall clock at which the last script was started

vars == <<fs, proc, exit, lastOp, faults, upv, latest, runs, snap, git, lastPub, now, trail,
          peer, since>>

\* ------------------------------------------------------------------ bounds
MaxRuns == 2
MaxFaults == 1

\* ------------------------------------------------------------ environment
Contests == {"c1", "c2"}
NoContest == "none"
\* what the home page may show as the most recently ended contest
LatestChoices == {"c1", NoContest}
\* versions of the site's content (an edit upstream makes a new one)
Versions == {1, 2}
\* the task ids of the /contests/{c}/tasks/{id} links of a contest page, in
\* document order (a task may be linked more than once)
TaskLinks == <<10, 9, 10>>
\* the same links on the page of each contest: c2 has one task, linked twice
TaskLinksOf(c) == IF c = "c2" THEN <<9, 9>> ELSE TaskLinks
\* the contests of /contests/all?page=1, ?page=2, ...; the page after the last
\* one lists no contest
ContestPages == << <<"c1">>, <<"c2">> >>
\* the contests of all the pages, in page order
RECURSIVE Concat(_)
Concat(pages) == IF pages = <<>> THEN <<>> ELSE Head(pages) \o Concat(Tail(pages))
AllContests == Concat(ContestPages)
\* the element that carries id="editorials" on an editorial index page
EditorialsTags == {"ul", "div"}
\* the anchors of a contest's editorial page, in document order: task and user
\* of the href /contests/{c}/editorial/{task}/{user}, and whether the text of the
\* anchor contains the official-editorial marker
EditorialAnchors ==
    << [href |-> <<9, 7>>, marked |-> FALSE],
       [href |-> <<10, 7>>, marked |-> FALSE],
       [href |-> <<10, 8>>, marked |-> TRUE] >>
Hrefs(anchors) == [n \in 1..Len(anchors) |-> anchors[n].href]
\* the loop over the anchors that skips those with the marker
UserEditorialLinks == Hrefs(SelectSeq(EditorialAnchors, LAMBDA a : ~a.marked))
\* soup.find(tag, id="editorials") and the loop over its anchors: nothing when
\* the element of the page with that id is of another kind
UserAnchorsIn(tag, page_tag) == IF tag = page_tag THEN UserEditorialLinks ELSE <<>>
\* re.findall over the text of the page: every href, whatever the anchor says
UserEditorialHrefs == Hrefs(EditorialAnchors)
\* the durations a contest page may show ("90分")
PageDurations == {90}
\* when the daily job may be started: [day of month, minute of the day], JST
StartChoices == << [day |-> 7, min |-> 19 * 60], [day |-> 6, min |-> 23 * 60] >>
\* how long a delegated command may take, in minutes
RunMinutes == {10, 200}
\* languages/config.json "languages"
ConfigLanguages == <<"fr", "en">>

\* ------------------------------------------------------------- data model
None == <<>>
Absent == [form |-> "absent"]
Empty == [form |-> "empty"]
Blank == [form |-> "blank"]
\* a text that is the content of no item
Other == [form |-> "other"]

Item(c, kind, t, u) == [c |-> c, kind |-> kind, t |-> t, u |-> u]

\* the markup a page of the site serves for an item
Src(item, v) == [form |-> "src", item |-> item, v |-> v, lang |-> "ja"]

Path(lang, dir, c, file) == <<lang, dir, c, file>>

Exists(f, p) == p \in DOMAIN f
Read(f, p) == IF p \in DOMAIN f THEN f[p] ELSE Absent
Write(f, p, x) == [q \in DOMAIN f \cup {p} |-> IF q = p THEN x ELSE f[q]]

\* str.strip(): whitespace-only text becomes the empty string
Strip(x) == IF x.form = "blank" THEN Empty ELSE x
\* `not x.strip()`
IsBlank(x) == Strip(x) = Empty

NoOp == [script |-> "", op |-> "", path |-> None, contest |-> "", existed |-> FALSE,
         fetches |-> 0, llms |-> 0, before |-> Absent, after |-> Absent]

Op(script, op, p, f, g, nf, nl) ==
    [script |-> script, op |-> op, path |-> p, contest |-> p[3],
     existed |-> Exists(f, p), fetches |-> nf, llms |-> nl,
     before |-> Read(f, p), after |-> Read(g, p)]

OutcomeX(g, k, ret, op, crash) == [fs |-> g, k |-> k, ret |-> ret, op |-> op, crash |-> crash]
Outcome(g, k, ret, op) == OutcomeX(g, k, ret, op, FALSE)

\* an external call that returns, or fails when the environment makes it fail
MayFail(k) ==
    {[ok |-> TRUE, k |-> k]} \cup (IF k > 0 THEN {[ok |-> FALSE, k |-> k - 1]} ELSE {})

\* --------------------------------------------------- collaborators (stubs)
\* A page extraction: the node's markup, or "" on timeout / absence / error.
ExtractResults(item, v, k) ==
    {[html |-> Src(item, v), k |-> k]} \cup
    (IF k > 0 THEN {[html |-> Empty, k |-> k - 1]} ELSE {})

\* requests.get: an answer with status 200, an answer with an error status,
\* or an exception (connection error, timeout)
HttpGet(k) ==
    {[status |-> "ok", k |-> k]} \cup
    (IF k > 0 THEN {[status |-> "error", k |-> k - 1], [status |-> "raise", k |-> k - 1]}
     ELSE {})

\* The text a successful chat completion returns for the prompt: the content of
\* the prompt in the language asked for, some other text when the prompt has
\* no content.
ApiResponses(prompt, lang, k) ==
    {[text |-> IF prompt.form \in {"empty", "blank"} THEN Other
               ELSE [form |-> "raw", item |-> prompt.item, v |-> prompt.v, lang |-> lang],
      k |-> k]} \cup
    (IF k > 0 THEN {[text |-> Empty, k |-> k - 1], [text |-> Blank, k |-> k - 1]}
     ELSE {})

\* update_user_editorials.ask_gpt, line 190: for i in range(5)
MaxAttempts == 5

\* the depth at which one more nested call of ask_gpt raises RecursionError
\* (the interpreter's recursion limit, scaled down)
RecursionLimit == 6

\* ask_gpt with the retry of its except block (fetch_and_translate.py 186-190,
\* fetch_editorial.py 160-163, update_user_editorial.py 150-153): a call that
\* raises is followed by a sleep and by the same call one frame deeper; n is
\* the number of calls made before this one.  The calls that may raise are
\* bounded by the fault budget, which stays below RecursionLimit; the deepest
\* frame is reached call by call in UEAskGptSteps.
RECURSIVE AskGptRecursive(_, _, _, _)
AskGptRecursive(prompt, lang, k, n) ==
    {[text |-> r.text, k |-> r.k, calls |-> n + 1] : r \in ApiResponses(prompt, lang, k)} \cup
    (IF k > 0 /\ n + 1 < RecursionLimit
     THEN AskGptRecursive(prompt, lang, k - 1, n + 1) ELSE {})

\* Loading the wrapper document in the browser: it renders or it raises.
BrowserResults(k) == MayFail(k)

\* ------------------------------------------------------- document helpers
\* The file of a translation is the answer of the model ("raw") followed by the
\* rewrites made to it since, in order: "W" header + text + footer written
\* back, "R" the final document around the body the browser shows for the
\* file, "C" every span.katex-display wrapped in a centering div.  The forms
\* name the sequences a single process produces; any other sequence, left by
\* two processes on one file, is kept as it is.
DocForms == {"raw", "wrapped", "rendered", "centered", "wrapped_centered", "raw_centered",
             "rewritten"}

Rewrites(x) ==
    CASE x.form = "raw" -> <<>>
      [] x.form = "wrapped" -> <<"W">>
      [] x.form = "rendered" -> <<"W", "R">>
      [] x.form = "centered" -> <<"W", "R", "C">>
      [] x.form = "wrapped_centered" -> <<"W", "C">>
      [] x.form = "raw_centered" -> <<"C">>
      [] x.form = "rewritten" -> x.rewrites

Rewritten(x, rw) ==
    LET doc(form) == [form |-> form, item |-> x.item, v |-> x.v, lang |-> x.lang] IN
    CASE rw = <<>> -> doc("raw")
      [] rw = <<"W">> -> doc("wrapped")
      [] rw = <<"W", "R">> -> doc("rendered")
      [] rw = <<"W", "R", "C">> -> doc("centered")
      [] rw = <<"W", "C">> -> doc("wrapped_centered")
      [] rw = <<"C">> -> doc("raw_centered")
      [] OTHER -> [form |-> "rewritten", item |-> x.item, v |-> x.v, lang |-> x.lang,
                   rewrites |-> rw]

\* header + original + footer, written back to the file before rendering
Wrapped(x) == Rewritten(x, Append(Rewrites(x), "W"))
\* the final document around the body of the page the browser shows for the file
Rendered(x) == Rewritten(x, Append(Rewrites(x), "R"))

\* wrapping every span.katex-display in a centering div and writing the
\* document back as the parser serialises it, whatever the file holds: the final
\* document, the wrapper document left by a failed render, or the raw answer
\* (whose display spans hold $tex$); a text without content has no such span
WrapDisplay(x) ==
    IF x.form \in DocForms THEN Rewritten(x, Append(Rewrites(x), "C")) ELSE x

\* KaTeX spans replaced by their $tex$ source: what is sent to the model
HtmlKatex(x) ==
    IF x.form \in {"empty", "blank"} THEN x
    ELSE [form |-> "tex", item |-> x.item, v |-> x.v, lang |-> x.lang]

\* ----------------------------------------------------------- processes
NoArgs == [contest |-> NoContest, json |-> FALSE, limit |-> 0, dry |-> FALSE]

\* --contest c, --contest-json, --limit n, --dry-run
ContestArg(c) == [NoArgs EXCEPT !.contest = c]
JsonArg == [NoArgs EXCEPT !.json = TRUE]
LimitArg(n) == [NoArgs EXCEPT !.limit = n]
DryRunArg == [NoArgs EXCEPT !.dry = TRUE]

Idle == [script |-> "idle", pc |-> "", args |-> NoArgs, contest |-> NoContest,
         ids |-> <<>>, i |-> 0, j |-> 0, map |-> <<>>, jp |-> None,
         cs |-> <<>>, ci |-> 0, dmin |-> 0, tries |-> 0, held |-> None, calls |-> 0]

\* a process at the start of its script
Spawn(script, args) == [Idle EXCEPT !.script = script, !.pc = "main", !.args = args]

NoExit == [script |-> "", args |-> NoArgs, rc |-> 0, out |-> [json |-> FALSE, line |-> ""]]

\* a line of text on stdout that is not JSON
Text(line) == [json |-> FALSE, line |-> line]

Exited(script, args, rc, out) == [script |-> script, args |-> args, rc |-> rc, out |-> out]

\* the state a step of a process starts from
Cur == [proc |-> proc, fs |-> fs, k |-> faults, op |-> lastOp, exit |-> exit,
        git |-> git, pub |-> lastPub, now |-> now, trail |-> trail]

Effects(r) ==
    /\ proc' = r.proc
    /\ fs' = r.fs
    /\ faults' = r.k
    /\ lastOp' = r.op
    /\ exit' = r.exit
    /\ git' = r.git
    /\ lastPub' = r.pub
    /\ now' = r.now
    /\ trail' = r.trail

\* a step of a batch script
Apply(r) == Effects(r) /\ snap' = IF r.proc = Idle THEN r.fs ELSE snap

\* a statement of a driver script
ApplyStatement(r) == Effects(r) /\ snap' = fs

\* ================================================================== git
NoGit == [index |-> << >>, head |-> << >>, remote |-> << >>]
NoPub == [op |-> "", log |-> <<>>, failed |-> FALSE, injected |-> FALSE, escaped |-> FALSE,
          staged |-> FALSE, diff |-> FALSE, committed |-> FALSE, pushed |-> FALSE]

\* what one git command does to the repository when it succeeds;
\* ok = FALSE when git itself refuses (unknown pathspec, nothing to commit)
GitEffect(c, f, g) ==
    CASE c.cmd = "add -A" -> [ok |-> TRUE, git |-> [g EXCEPT !.index = f]]
      [] c.cmd = "add" ->
            IF Exists(f, c.path)
            THEN [ok |-> TRUE, git |-> [g EXCEPT !.index = Write(g.index, c.path, f[c.path])]]
            ELSE [ok |-> FALSE, git |-> g]
      [] c.cmd = "commit" ->
            IF g.index = g.head THEN [ok |-> FALSE, git |-> g]
            ELSE [ok |-> TRUE, git |-> [g EXCEPT !.head = g.index]]
      [] c.cmd = "push" -> [ok |-> TRUE, git |-> [g EXCEPT !.remote = g.head]]
      [] OTHER -> [ok |-> TRUE, git |-> g]

Cmd(c) == [cmd |-> c, path |-> None]

PubResult(g, k, log, raised) == [git |-> g, k |-> k, log |-> log, raised |-> raised]

\* subprocess.run(..., check=True) over the commands of a publish function, in
\* order; "diff" is the unchecked `git diff --cached --quiet` whose exit code 0
\* makes the function return: any other exit code, that of a difference or
\* that of a failure, lets it go on to the commit
RECURSIVE GitExec(_, _, _, _, _)
GitExec(cmds, f, g, k, log) ==
    IF cmds = <<>> THEN {PubResult(g, k, log, FALSE)}
    ELSE LET c == Head(cmds)
             lg == Append(log, c.cmd) IN
         IF c.cmd = "diff"
         THEN (IF g.index = g.head THEN {PubResult(g, k, lg, FALSE)}
               ELSE GitExec(Tail(cmds), f, g, k, lg)) \cup
              (IF k > 0 THEN GitExec(Tail(cmds), f, g, k - 1, lg) ELSE {})
         ELSE (IF k > 0 THEN {PubResult(g, k - 1, lg, TRUE)} ELSE {}) \cup
              (LET r == GitEffect(c, f, g) IN
               IF r.ok THEN GitExec(Tail(cmds), f, r.git, k, lg)
               ELSE {PubResult(g, k, lg, TRUE)})

StagingCmds == {"add", "add -A"}

\* the commands of the log that ran to completion
Completed(r) == IF r.raised THEN SubSeq(r.log, 1, Len(r.log) - 1) ELSE r.log

\* a publish function: its commands run in order; `catch` says whether the
\* function catches CalledProcessError itself
Publish(op, cmds, catch, f, g, k) ==
    { [git |-> r.git, k |-> r.k,
       pub |-> [op |-> op, log |-> r.log, failed |-> r.raised, injected |-> r.k < k,
                escaped |-> r.raised /\ ~catch,
                staged |-> \E n \in 1..Len(Completed(r)) : Completed(r)[n] \in StagingCmds,
                diff |-> r.git.index # g.head,
                committed |-> r.git.head # g.head,
                pushed |-> r.log # <<>> /\ r.log[Len(r.log)] = "push" /\ ~r.raised]]
      : r \in GitExec(cmds, f, g, k, <<>>) }

\* ============================================================ fetch_and_translate.py
FT == "fetch_and_translate"

\* the page fetch of fetch_url_html: the html, or an exception
FetchUrlHtml(k) == MayFail(k)

\* sorted(set(xs)) under the order Less
Sorted(S, Less(_, _)) ==
    CHOOSE q \in [1..Cardinality(S) -> S] :
        /\ {q[n] : n \in 1..Cardinality(S)} = S
        /\ \A m, n \in 1..Cardinality(S) : m < n => Less(q[m], q[n])

SeqRange(q) == {q[n] : n \in 1..Len(q)}

\* key=lambda x: int(x)
IntLess(m, n) == m < n

\* fetch_task_ids: sorted(set(ids), key=int) of the task links of the contest
\* page, [] when the fetch fails
FetchTaskIds(c, k) ==
    {[ids |-> IF r.ok THEN Sorted(SeqRange(TaskLinksOf(c)), IntLess) ELSE <<>>, k |-> r.k]
     : r \in FetchUrlHtml(k)}

\* extract_div_innerhtml_with_playwright
ExtractDivInnerhtmlWithPlaywright(item, v, k) == ExtractResults(item, v, k)

\* ask_gpt_translated_html: the stripped text of the first successful completion
AskGptTranslatedHtml(jp_html, lang, k) ==
    {[r EXCEPT !.text = Strip(r.text)] : r \in AskGptRecursive(HtmlKatex(jp_html), lang, k, 0)}

\* render_to_final_html: the file becomes the wrapper document, then (unless the
\* browser raises) the final document around the rendered body
RenderToFinalHtml(f, p, ok) ==
    LET w == Write(f, p, Wrapped(f[p])) IN
    IF ok THEN Write(w, p, Rendered(w[p])) ELSE w

\* wrap_display_math_center
WrapDisplayMathCenter(f, p) == Write(f, p, WrapDisplay(f[p]))

SaveJpSkipless(script, op, dir, kind, f, c, t, v, k) ==
    LET p == Path("jp", dir, c, t) IN
    { LET g == IF IsBlank(r.html) THEN f ELSE Write(f, p, r.html) IN
      Outcome(g, r.k, IF IsBlank(r.html) THEN None ELSE p, Op(script, op, p, f, g, 1, 0))
      : r \in ExtractDivInnerhtmlWithPlaywright(Item(c, kind, t, 0), v, k) }

\* common body of save_jp_task / save_jp_explanation
SaveJp(script, op, dir, kind, f, c, t, v, k) ==
    LET p == Path("jp", dir, c, t) IN
    IF Exists(f, p)
    THEN {Outcome(f, k, p, Op(script, op, p, f, f, 0, 0))}
    ELSE { LET g == IF IsBlank(r.html) THEN f ELSE Write(f, p, r.html) IN
           Outcome(g, r.k, IF IsBlank(r.html) THEN None ELSE p,
                   Op(script, op, p, f, g, 1, 0))
           : r \in ExtractDivInnerhtmlWithPlaywright(Item(c, kind, t, 0), v, k) }

SaveJpTask(f, c, t, v, k) == SaveJp(FT, "save_jp_task", "problems", "task", f, c, t, v, k)

SaveJpExplanation(f, c, t, v, k) ==
    SaveJp(FT, "save_jp_explanation", "explanations", "editorial", f, c, t, v, k)

\* common body of save_translated_task / save_translated_explanation
SaveTranslated(op, dir, f, c, t, lang, jp_path, k) ==
    LET p == Path(lang, dir, c, t) IN
    IF Exists(f, p)
    THEN {Outcome(f, k, None, Op(FT, op, p, f, f, 0, 0))}
    ELSE UNION {
           IF IsBlank(a.text)
           THEN {Outcome(f, a.k, None, Op(FT, op, p, f, f, 0, a.calls))}
           ELSE { LET g == WrapDisplayMathCenter(
                               RenderToFinalHtml(Write(f, p, a.text), p, b.ok), p) IN
                  Outcome(g, b.k, None, Op(FT, op, p, f, g, 0, a.calls))
                  : b \in BrowserResults(a.k) }
           : a \in AskGptTranslatedHtml(f[jp_path], lang, k) }

SaveTranslatedTask(f, c, t, lang, jp_path, k) ==
    SaveTranslated("save_translated_task", "problems", f, c, t, lang, jp_path, k)

SaveTranslatedExplanation(f, c, t, lang, jp_path, k) ==
    SaveTranslated("save_translated_explanation", "explanations", f, c, t, lang, jp_path, k)

\* load_languages_list: "exit" when "en" is not configured, else en first
SelectSeq2(s, x) == SelectSeq(s, LAMBDA l : l # x)

\* the list as configured, "en" left where it stands
LoadLanguagesListAsConfigured(cfg) ==
    IF \A n \in 1..Len(cfg) : cfg[n] # "en"
    THEN [exit |-> TRUE, langs |-> <<>>]
    ELSE [exit |-> FALSE, langs |-> cfg]

LoadLanguagesList(cfg) ==
    IF \A n \in 1..Len(cfg) : cfg[n] # "en"
    THEN [exit |-> TRUE, langs |-> <<>>]
    ELSE [exit |-> FALSE, langs |-> <<"en">> \o SelectSeq2(cfg, "en")]

\* the process ends: exit code and the last line it printed
Finish(s, script, f, k, op, rc, out) ==
    [s EXCEPT !.proc = Idle, !.fs = f, !.k = k, !.op = op, !.exit = Exited(script, s.proc.args, rc, out)]

Goto(s, q, f, k, op) == [s EXCEPT !.proc = q, !.fs = f, !.k = k, !.op = op]

\* main(), lines 471-495: home page, latest ended contest, task list, languages.
\* The command line is never read: --contest and --contest-json change nothing.
FTMainSteps(s) ==
    UNION {
      IF ~h.ok THEN {Finish(s, FT, s.fs, h.k, s.op, 0, Text("[Error]"))}
      ELSE IF latest = NoContest THEN {Finish(s, FT, s.fs, h.k, s.op, 0, Text("no contest"))}
      ELSE UNION {
        IF l.ids = <<>> THEN {Finish(s, FT, s.fs, l.k, s.op, 0, Text("[Warn]"))}
        ELSE IF LoadLanguagesList(ConfigLanguages).exit
             THEN {Finish(s, FT, s.fs, l.k, s.op, 1, Text("[Error]"))}
             ELSE {Goto(s, [s.proc EXCEPT !.pc = "jp_task", !.contest = latest,
                                          !.ids = l.ids, !.i = 1], s.fs, l.k, s.op)}
        : l \in FetchTaskIds(latest, h.k) }
      : h \in FetchUrlHtml(s.k) }

FTOthers == SelectSeq2(LoadLanguagesList(ConfigLanguages).langs, "en")

\* the position after the body of the first loop for task i
FTNextTask(q) ==
    IF q.i < Len(q.ids) THEN [q EXCEPT !.pc = "jp_task", !.i = q.i + 1]
    ELSE IF FTOthers = <<>> \/ q.map = <<>> THEN Idle
    ELSE [q EXCEPT !.pc = "other_task", !.j = 1, !.i = 1]

\* the position after the body of the second loop for language j, task i
FTNextOther(q) ==
    IF q.i < Len(q.map) THEN [q EXCEPT !.pc = "other_task", !.i = q.i + 1]
    ELSE IF q.j < Len(FTOthers) THEN [q EXCEPT !.pc = "other_task", !.j = q.j + 1, !.i = 1]
    ELSE Idle

FTGo(s, q, o) ==
    IF q = Idle THEN Finish(s, FT, o.fs, o.k, o.op, 0, Text("done"))
    ELSE Goto(s, q, o.fs, o.k, o.op)

\* main(), lines 500-504
FTJpTaskSteps(s) ==
    { FTGo(s, IF o.ret = None THEN FTNextTask(s.proc)
              ELSE [s.proc EXCEPT !.pc = "en_task", !.jp = o.ret], o)
      : o \in SaveJpTask(s.fs, s.proc.contest, s.proc.ids[s.proc.i], upv, s.k) }

\* main(), lines 505-507
FTEnTaskSteps(s) ==
    { FTGo(s, [s.proc EXCEPT !.pc = "jp_expl",
                             !.map = Append(s.proc.map, s.proc.ids[s.proc.i])], o)
      : o \in SaveTranslatedTask(s.fs, s.proc.contest, s.proc.ids[s.proc.i], "en",
                                 s.proc.jp, s.k) }

\* main(), lines 509-511
FTJpExplSteps(s) ==
    { FTGo(s, IF o.ret = None THEN FTNextTask(s.proc)
              ELSE [s.proc EXCEPT !.pc = "en_expl", !.jp = o.ret], o)
      : o \in SaveJpExplanation(s.fs, s.proc.contest, s.proc.ids[s.proc.i], upv, s.k) }

\* main(), line 512
FTEnExplSteps(s) ==
    { FTGo(s, FTNextTask(s.proc), o)
      : o \in SaveTranslatedExplanation(s.fs, s.proc.contest, s.proc.ids[s.proc.i], "en",
                                        s.proc.jp, s.k) }

\* main(), lines 518-523
FTOtherTaskSteps(s) ==
    LET t == s.proc.map[s.proc.i]
        expl_jp == Path("jp", "explanations", s.proc.contest, t) IN
    { FTGo(s, IF Exists(o.fs, expl_jp)
              THEN [s.proc EXCEPT !.pc = "other_expl", !.jp = expl_jp]
              ELSE FTNextOther(s.proc), o)
      : o \in SaveTranslatedTask(s.fs, s.proc.contest, t, FTOthers[s.proc.j],
                                 Path("jp", "problems", s.proc.contest, t), s.k) }

\* main(), line 524
FTOtherExplSteps(s) ==
    { FTGo(s, FTNextOther(s.proc), o)
      : o \in SaveTranslatedExplanation(s.fs, s.proc.contest, s.proc.map[s.proc.i],
                                        FTOthers[s.proc.j], s.proc.jp, s.k) }

\* main() of fetch_and_translate.py, one operation at a time
FTSteps(s) ==
    CASE s.proc.pc = "main" -> FTMainSteps(s)
      [] s.proc.pc = "jp_task" -> FTJpTaskSteps(s)
      [] s.proc.pc = "en_task" -> FTEnTaskSteps(s)
      [] s.proc.pc = "jp_expl" -> FTJpExplSteps(s)
      [] s.proc.pc = "en_expl" -> FTEnExplSteps(s)
      [] s.proc.pc = "other_task" -> FTOtherTaskSteps(s)
      [] s.proc.pc = "other_expl" -> FTOtherExplSteps(s)

Running(script, pc) == proc.script = script /\ proc.pc = pc

Env == UNCHANGED <<upv, latest, runs, peer, since>>

FTMain == Running(FT, "main") /\ (\E r \in FTMainSteps(Cur) : Apply(r)) /\ Env
FTJpTask == Running(FT, "jp_task") /\ (\E r \in FTJpTaskSteps(Cur) : Apply(r)) /\ Env
FTEnTask == Running(FT, "en_task") /\ (\E r \in FTEnTaskSteps(Cur) : Apply(r)) /\ Env
FTJpExpl == Running(FT, "jp_expl") /\ (\E r \in FTJpExplSteps(Cur) : Apply(r)) /\ Env
FTEnExpl == Running(FT, "en_expl") /\ (\E r \in FTEnExplSteps(Cur) : Apply(r)) /\ Env
FTOtherTask == Running(FT, "other_task") /\ (\E r \in FTOtherTaskSteps(Cur) : Apply(r)) /\ Env
FTOtherExpl == Running(FT, "other_expl") /\ (\E r \in FTOtherExplSteps(Cur) : Apply(r)) /\ Env

\* ================================================================ fetch_editorial.py
FE == "fetch_editorial"

\* the argument of the calls at lines 345 and 353: the literal `...`
EllipsisPath == <<"Ellipsis">>

\* the commands of git_add_and_push(file_path), lines 28-33
FEGitCmds(file_path) ==
    << Cmd("config user.name"), Cmd("config user.email"),
       [cmd |-> "add", path |-> file_path], Cmd("commit"), Cmd("push") >>

\* git_add_and_push, lines 25-36: CalledProcessError is caught
FEGitAddAndPush(file_path, f, g, k) ==
    Publish("fetch_editorial.git_add_and_push", FEGitCmds(file_path), TRUE, f, g, k)

\* fetch_editorial_html_with_playwright
FetchEditorialHtmlWithPlaywright(c, t, v, k) == ExtractResults(Item(c, "editorial", t, 0), v, k)

\* ask_gpt / translate_html_for_lang of fetch_editorial.py: target_lang is not
\* passed on to ask_gpt; the request is the same for every language and names
\* "the target language (e.g. English)"
FETranslateHtmlForLang(jp_html, lang, k) ==
    {[r EXCEPT !.text = Strip(r.text)]
     : r \in AskGptRecursive(HtmlKatex(jp_html), "en", k, 0)}

SaveJpEditorialSkipless(f, c, t, v, k) ==
    LET p == Path("ja", "editorial", c, t) IN
    { LET g == IF IsBlank(r.html) THEN f ELSE Write(f, p, r.html) IN
      Outcome(g, r.k, IF IsBlank(r.html) THEN None ELSE p,
              Op(FE, "save_jp_editorial", p, f, g, 1, 0))
      : r \in FetchEditorialHtmlWithPlaywright(c, t, v, k) }

\* save_jp_editorial
SaveJpEditorial(f, c, t, v, k) ==
    LET p == Path("ja", "editorial", c, t) IN
    IF Exists(f, p)
    THEN {Outcome(f, k, p, Op(FE, "save_jp_editorial", p, f, f, 0, 0))}
    ELSE { LET g == IF IsBlank(r.html) THEN f ELSE Write(f, p, r.html) IN
           Outcome(g, r.k, IF IsBlank(r.html) THEN None ELSE p,
                   Op(FE, "save_jp_editorial", p, f, g, 1, 0))
           : r \in FetchEditorialHtmlWithPlaywright(c, t, v, k) }

\* render_html_with_playwright of fetch_editorial.py: no exception is caught
\* here, the wrapper document stays in the file when the browser raises
RenderHtmlWithPlaywright(f, p, ok) ==
    LET w == Write(f, p, Wrapped(f[p])) IN
    IF ok THEN Write(w, p, Rendered(w[p])) ELSE w

\* change_editorial_display
ChangeEditorialDisplay(f, p) ==
    IF Exists(f, p) THEN Write(f, p, WrapDisplay(f[p])) ELSE f

\* save_translated_editorial from line 314 on, after the test of out_path;
\* crash = an exception leaves the function
SaveTranslatedEditorialBody(f, c, t, lang, jp_filepath, k) ==
    LET p == Path(lang, "editorial", c, t)
        op == "save_translated_editorial" IN
    IF ~Exists(f, jp_filepath)
    THEN {OutcomeX(f, k, None, Op(FE, op, p, f, f, 0, 0), TRUE)}
    ELSE UNION {
           IF IsBlank(a.text)
           THEN {Outcome(f, a.k, None, Op(FE, op, p, f, f, 0, a.calls))}
           ELSE { LET w == RenderHtmlWithPlaywright(Write(f, p, a.text), p, b.ok)
                      g == IF b.ok THEN ChangeEditorialDisplay(w, p) ELSE w IN
                  OutcomeX(g, b.k, None, Op(FE, op, p, f, g, 0, a.calls), ~b.ok)
                  : b \in BrowserResults(a.k) }
           : a \in FETranslateHtmlForLang(f[jp_filepath], lang, k) }

\* save_translated_editorial
SaveTranslatedEditorial(f, c, t, lang, jp_filepath, k) ==
    LET p == Path(lang, "editorial", c, t) IN
    IF Exists(f, p)
    THEN {Outcome(f, k, None, Op(FE, "save_translated_editorial", p, f, f, 0, 0))}
    ELSE SaveTranslatedEditorialBody(f, c, t, lang, jp_filepath, k)

\* check_existence_editorial
CheckExistenceEditorial(f, c, t, lang) == Exists(f, Path(lang, "editorial", c, t))

FEOthers == SelectSeq2(LoadLanguagesList(ConfigLanguages).langs, "en")

FECrash(s, f, k, op) == Finish(s, FE, f, k, op, 1, Text("Traceback"))
FEDone(s, f, k, op) == Finish(s, FE, f, k, op, 0, Text("log"))

\* __main__, lines 363-366, and the head of translate_editorials_for_contest:
\* the browser is launched outside any try, then the task ids are fetched
FEStart(s, c, k) ==
    UNION {
      IF ~b.ok THEN {FECrash(s, s.fs, b.k, s.op)}
      ELSE UNION {
             IF LoadLanguagesList(ConfigLanguages).exit
             THEN {Finish(s, FE, s.fs, l.k, s.op, 1, Text("[Error]"))}
             ELSE IF l.ids = <<>> THEN {FEDone(s, s.fs, l.k, s.op)}
             ELSE {Goto(s, [s.proc EXCEPT !.pc = "jp", !.contest = c, !.ids = l.ids,
                                          !.i = 1], s.fs, l.k, s.op)}
             : l \in FetchTaskIds(c, b.k) }
      : b \in MayFail(k) }

FEMainSteps(s) ==
    IF s.proc.args.contest # NoContest THEN FEStart(s, s.proc.args.contest, s.k)
    ELSE UNION {
           IF ~h.ok THEN {FECrash(s, s.fs, h.k, s.op)}
           ELSE IF latest = NoContest THEN {Finish(s, FE, s.fs, h.k, s.op, 0, Text(""))}
           ELSE FEStart(s, latest, h.k)
           : h \in FetchUrlHtml(s.k) }

\* translate_editorials_for_contest, lines 338-339
FEJpSteps(s) ==
    { Goto(s, IF s.proc.i < Len(s.proc.ids) THEN [s.proc EXCEPT !.i = s.proc.i + 1]
              ELSE [s.proc EXCEPT !.pc = "en", !.i = 1], o.fs, o.k, o.op)
      : o \in SaveJpEditorial(s.fs, s.proc.contest, s.proc.ids[s.proc.i], upv, s.k) }

FENextEn(q) ==
    IF q.i < Len(q.ids) THEN [q EXCEPT !.i = q.i + 1]
    ELSE IF FEOthers = <<>> THEN Idle
    ELSE [q EXCEPT !.pc = "other", !.i = 1, !.j = 1]

FENextOther(q) ==
    IF q.j < Len(FEOthers) THEN [q EXCEPT !.j = q.j + 1]
    ELSE IF q.i < Len(q.ids) THEN [q EXCEPT !.i = q.i + 1, !.j = 1]
    ELSE Idle

FEGo(s, q) == IF q = Idle THEN FEDone(s, s.fs, s.k, s.op) ELSE [s EXCEPT !.proc = q]

\* the body of the loops at lines 342-345 and 350-353: translate unless the
\* file exists, then git_add_and_push(...)
FEPushAfter(s, next, outcomes) ==
    UNION {
      IF o.crash THEN {FECrash(s, o.fs, o.k, o.op)}
      ELSE { FEGo([s EXCEPT !.fs = o.fs, !.k = g.k, !.op = o.op,
                            !.git = g.git, !.pub = g.pub], next)
             : g \in FEGitAddAndPush(EllipsisPath, o.fs, s.git, o.k) }
      : o \in outcomes }

FETranslateAndPush(s, lang, next) ==
    LET c == s.proc.contest
        t == s.proc.ids[s.proc.i] IN
    IF CheckExistenceEditorial(s.fs, c, t, lang) THEN {FEGo(s, next)}
    ELSE FEPushAfter(s, next, SaveTranslatedEditorial(s.fs, c, t, lang,
                                                      Path("ja", "editorial", c, t), s.k))

\* translate_editorials_for_contest, lines 341-345
FEEnSteps(s) == FETranslateAndPush(s, "en", FENextEn(s.proc))

\* translate_editorials_for_contest, lines 347-353
FEOtherSteps(s) == FETranslateAndPush(s, FEOthers[s.proc.j], FENextOther(s.proc))

FESteps(s) ==
    CASE s.proc.pc = "main" -> FEMainSteps(s)
      [] s.proc.pc = "jp" -> FEJpSteps(s)
      [] s.proc.pc = "en" -> FEEnSteps(s)
      [] s.proc.pc = "other" -> FEOtherSteps(s)

FEMain == Running(FE, "main") /\ (\E r \in FEMainSteps(Cur) : Apply(r)) /\ Env
FEJp == Running(FE, "jp") /\ (\E r \in FEJpSteps(Cur) : Apply(r)) /\ Env
FEEn == Running(FE, "en") /\ (\E r \in FEEnSteps(Cur) : Apply(r)) /\ Env
FEOther == Running(FE, "other") /\ (\E r \in FEOtherSteps(Cur) : Apply(r)) /\ Env

\* ============================================================= fetch_latest_ended.py
FL == "fetch_latest_ended"

\* os.path.isdir(d) and os.listdir(d): a file of that contest and kind exists
DirHasFiles(f, lang, dir, c) ==
    \E p \in DOMAIN f : p[1] = lang /\ p[2] = dir /\ p[3] = c

SaveDivInnerhtmlSkipless(f, c, t, subdir, v, k) ==
    LET p == Path("ja", subdir, c, t)
        kind == IF subdir = "tasks" THEN "task" ELSE "editorial" IN
    { LET g == IF IsBlank(r.html) THEN f ELSE Write(f, p, r.html) IN
      Outcome(g, r.k, None, Op(FL, "save_div_innerhtml", p, f, g, 1, 0))
      : r \in ExtractDivInnerhtmlWithPlaywright(Item(c, kind, t, 0), v, k) }

\* save_div_innerhtml
SaveDivInnerhtml(f, c, t, subdir, v, k) ==
    LET p == Path("ja", subdir, c, t)
        kind == IF subdir = "tasks" THEN "task" ELSE "editorial" IN
    IF Exists(f, p) THEN {Outcome(f, k, None, Op(FL, "save_div_innerhtml", p, f, f, 0, 0))}
    ELSE { LET g == IF IsBlank(r.html) THEN f ELSE Write(f, p, r.html) IN
           Outcome(g, r.k, None, Op(FL, "save_div_innerhtml", p, f, g, 1, 0))
           : r \in ExtractDivInnerhtmlWithPlaywright(Item(c, kind, t, 0), v, k) }

FLDone(s, f, k, op) == Finish(s, FL, f, k, op, 0, Text("log"))

\* main(), lines 191-206: the editorial phase, entered after the task phase
FLEditorialPhase(s, f, k, op) ==
    IF DirHasFiles(f, "ja", "editorial", s.proc.contest) THEN {FLDone(s, f, k, op)}
    ELSE { IF l.ids = <<>> THEN FLDone(s, f, l.k, op)
           ELSE Goto(s, [s.proc EXCEPT !.pc = "editorial", !.ids = l.ids, !.i = 1],
                     f, l.k, op)
           : l \in FetchTaskIds(s.proc.contest, k) }

\* main(), lines 161-187
FLMainSteps(s) ==
    UNION {
      IF ~h.ok THEN {Finish(s, FL, s.fs, h.k, s.op, 1, Text("[Error]"))}
      ELSE IF latest = NoContest THEN {FLDone(s, s.fs, h.k, s.op)}
      ELSE LET s1 == [s EXCEPT !.proc.contest = latest] IN
           IF DirHasFiles(s.fs, "ja", "tasks", latest)
           THEN FLEditorialPhase(s1, s.fs, h.k, s.op)
           ELSE { IF l.ids = <<>> THEN FLDone(s, s.fs, l.k, s.op)
                  ELSE Goto(s, [s1.proc EXCEPT !.pc = "tasks", !.ids = l.ids, !.i = 1],
                            s.fs, l.k, s.op)
                  : l \in FetchTaskIds(latest, h.k) }
      : h \in FetchUrlHtml(s.k) }

\* main(), lines 188-189
FLTasksSteps(s) ==
    UNION {
      IF s.proc.i < Len(s.proc.ids)
      THEN {Goto(s, [s.proc EXCEPT !.i = s.proc.i + 1], o.fs, o.k, o.op)}
      ELSE FLEditorialPhase(s, o.fs, o.k, o.op)
      : o \in SaveDivInnerhtml(s.fs, s.proc.contest, s.proc.ids[s.proc.i], "tasks", upv, s.k) }

\* main(), lines 203-204
FLEditorialSteps(s) ==
    { IF s.proc.i < Len(s.proc.ids)
      THEN Goto(s, [s.proc EXCEPT !.i = s.proc.i + 1], o.fs, o.k, o.op)
      ELSE FLDone(s, o.fs, o.k, o.op)
      : o \in SaveDivInnerhtml(s.fs, s.proc.contest, s.proc.ids[s.proc.i], "editorial",
                               upv, s.k) }

FLSteps(s) ==
    CASE s.proc.pc = "main" -> FLMainSteps(s)
      [] s.proc.pc = "tasks" -> FLTasksSteps(s)
      [] s.proc.pc = "editorial" -> FLEditorialSteps(s)

FLMain == Running(FL, "main") /\ (\E r \in FLMainSteps(Cur) : Apply(r)) /\ Env
FLTasks == Running(FL, "tasks") /\ (\E r \in FLTasksSteps(Cur) : Apply(r)) /\ Env
FLEditorial == Running(FL, "editorial") /\ (\E r \in FLEditorialSteps(Cur) : Apply(r)) /\ Env

\* ========================================================= update_user_editorial.py
UE == "update_user_editorial"

UECrash(s, f, k, op) == Finish(s, UE, f, k, op, 1, Text("Traceback"))
UEDone(s, f, k, op) == Finish(s, UE, f, k, op, 0, Text("log"))

\* the position after one contest
UENextContest(q) ==
    IF q.ci < Len(q.cs) THEN [q EXCEPT !.pc = "index", !.ci = q.ci + 1] ELSE Idle

\* the position after one anchor (`continue` included)
UENextItem(q) ==
    IF q.i < Len(q.ids) THEN [q EXCEPT !.pc = "ja", !.i = q.i + 1] ELSE UENextContest(q)

UEGo(s, q, f, k, op) == IF q = Idle THEN UEDone(s, f, k, op) ELSE Goto(s, q, f, k, op)

\* main(), lines 162-165: get_all_contests raises when a page cannot be fetched
UEMainSteps(s) ==
    { IF ~r.ok THEN UECrash(s, s.fs, r.k, s.op)
      ELSE Goto(s, [s.proc EXCEPT !.pc = "index", !.cs = AllContests, !.ci = 1],
                s.fs, r.k, s.op)
      : r \in MayFail(s.k) }

\* main(), lines 167-190: the editorial index of a contest and the user anchors
\* of its <ul id="editorials">; requests.get is outside any try
UEIndexSteps(s) ==
    UNION {
      IF r.status = "raise" THEN {UECrash(s, s.fs, r.k, s.op)}
      ELSE IF r.status # "ok" THEN {UEGo(s, UENextContest(s.proc), s.fs, r.k, s.op)}
      ELSE { LET ids == UserAnchorsIn("ul", tag) IN
             IF ids = <<>> THEN UEGo(s, UENextContest(s.proc), s.fs, r.k, s.op)
             ELSE Goto(s, [s.proc EXCEPT !.pc = "ja", !.contest = s.proc.cs[s.proc.ci],
                                         !.ids = ids, !.i = 1], s.fs, r.k, s.op)
             : tag \in EditorialsTags }
      : r \in HttpGet(s.k) }

\* main(), lines 192-205: the file is named after the user id alone
UEJaSteps(s) ==
    LET c == s.proc.contest
        tu == s.proc.ids[s.proc.i]
        ja_path == Path("ja", "user_editorial", c, tu[2])
        toEn == [s.proc EXCEPT !.pc = "en"] IN
    IF Exists(s.fs, ja_path)
    THEN {Goto(s, toEn, s.fs, s.k, Op(UE, "save_ja", ja_path, s.fs, s.fs, 0, 0))}
    ELSE { IF IsBlank(r.html)
           THEN UEGo(s, UENextItem(s.proc), s.fs, r.k,
                     Op(UE, "save_ja", ja_path, s.fs, s.fs, 1, 0))
           ELSE LET g == Write(s.fs, ja_path, r.html) IN
                Goto(s, toEn, g, r.k, Op(UE, "save_ja", ja_path, s.fs, g, 1, 0))
           : r \in ExtractResults(Item(c, "user", tu[1], tu[2]), upv, s.k) }

\* change_display_wrap
ChangeDisplayWrap(f, p) == Write(f, p, WrapDisplay(f[p]))

\* main(), lines 207-224: translate, write, render (uncaught), wrap
\* the English step of one item, given what ask_gpt returns
UEEnWith(s, answers) ==
    LET c == s.proc.contest
        tu == s.proc.ids[s.proc.i]
        ja_path == Path("ja", "user_editorial", c, tu[2])
        en_path == Path("en", "user_editorial", c, tu[2])
        next == UENextItem(s.proc) IN
    IF Exists(s.fs, en_path)
    THEN {UEGo(s, next, s.fs, s.k, Op(UE, "translate_en", en_path, s.fs, s.fs, 0, 0))}
    ELSE UNION {
           IF IsBlank(Strip(a.text))
           THEN {UEGo(s, next, s.fs, a.k,
                      Op(UE, "translate_en", en_path, s.fs, s.fs, 0, a.calls))}
           ELSE { LET w == RenderHtmlWithPlaywright(Write(s.fs, en_path, Strip(a.text)),
                                                    en_path, b.ok) IN
                  IF b.ok
                  THEN LET g == ChangeDisplayWrap(w, en_path) IN
                       UEGo(s, next, g, b.k,
                            Op(UE, "translate_en", en_path, s.fs, g, 0, a.calls))
                  ELSE UECrash(s, w, b.k,
                               Op(UE, "translate_en", en_path, s.fs, w, 0, a.calls))
                  : b \in BrowserResults(a.k) }
           : a \in answers }

UEEnSteps(s) ==
    LET ja_path == Path("ja", "user_editorial", s.proc.contest, s.proc.ids[s.proc.i][2]) IN
    UEEnWith(s, IF Exists(s.fs, ja_path)
                THEN AskGptRecursive(HtmlKatex(s.fs[ja_path]), "en", s.k, 0) ELSE {})

UESteps(s) ==
    CASE s.proc.pc = "main" -> UEMainSteps(s)
      [] s.proc.pc = "index" -> UEIndexSteps(s)
      [] s.proc.pc = "ja" -> UEJaSteps(s)
      [] s.proc.pc = "en" -> UEEnSteps(s)

UEMain == Running(UE, "main") /\ (\E r \in UEMainSteps(Cur) : Apply(r)) /\ Env
UEIndex == Running(UE, "index") /\ (\E r \in UEIndexSteps(Cur) : Apply(r)) /\ Env
UEJa == Running(UE, "ja") /\ (\E r \in UEJaSteps(Cur) : Apply(r)) /\ Env
UEEn == Running(UE, "en") /\ (\E r \in UEEnSteps(Cur) : Apply(r)) /\ Env

\* ======================================================== update_user_editorials.py
UUE == "update_user_editorials"

\* str(n): the decimal digits of a non-negative integer
RECURSIVE Digits(_)
Digits(n) == IF n < 10 THEN <<n>> ELSE Append(Digits(n \div 10), n % 10)

\* Python's `<` on two strings of digits
RECURSIVE LexLess(_, _)
LexLess(a, b) ==
    IF a = <<>> THEN b # <<>>
    ELSE IF b = <<>> THEN FALSE
    ELSE IF Head(a) # Head(b) THEN Head(a) < Head(b)
    ELSE LexLess(Tail(a), Tail(b))

StrLess(m, n) == LexLess(Digits(m), Digits(n))

\* `<` on the (task, user) tuples of strings that re.findall returns
StrPairLess(a, b) == StrLess(a[1], b[1]) \/ (a[1] = b[1] /\ StrLess(a[2], b[2]))

\* `<` on tuples of ints
IntPairLess(a, b) == a[1] < b[1] \/ (a[1] = b[1] /\ a[2] < b[2])

\* fetch_text: the page, or "" on any requests exception
FetchText(k) == MayFail(k)

\* list_task_ids_in_contest: the contest page, then /tasks; sorted as strings
ListTaskIdsInContest(c, k) ==
    UNION { IF a.ok THEN {[ids |-> Sorted(SeqRange(TaskLinksOf(c)), StrLess), k |-> a.k]}
            ELSE { [ids |-> IF b.ok THEN Sorted(SeqRange(TaskLinksOf(c)), StrLess) ELSE <<>>,
                    k |-> b.k] : b \in FetchText(a.k) }
            : a \in FetchText(k) }

\* list_user_editorials_in_contest, lines 137-144: the /editorial/{tid} page of a
\* task links the user editorials of that task
RECURSIVE FallbackPairs(_, _, _)
FallbackPairs(task_ids, pairs, k) ==
    IF task_ids = <<>> THEN {[pairs |-> Sorted(pairs, IntPairLess), k |-> k]}
    ELSE UNION { FallbackPairs(Tail(task_ids),
                               IF e.ok
                               THEN pairs \cup {tu \in SeqRange(UserEditorialHrefs) :
                                                  tu[1] = Head(task_ids)}
                               ELSE pairs,
                               e.k)
                 : e \in FetchText(k) }

\* list_user_editorials_in_contest
ListUserEditorialsInContest(c, k) ==
    UNION { IF h.ok /\ UserEditorialHrefs # <<>>
            THEN {[pairs |-> Sorted(SeqRange(UserEditorialHrefs), StrPairLess), k |-> h.k]}
            ELSE UNION { FallbackPairs(l.ids, {}, l.k) : l \in ListTaskIdsInContest(c, h.k) }
            : h \in FetchText(k) }

\* the innerHTML of <body> of the page of an item: navigation, scripts and the
\* content node with version v of the content, or with nothing in it (v = 0)
Body(item, v) == [form |-> "body", item |-> item, v |-> v, lang |-> "ja"]

\* extract_content_with_playwright, lines 151-177: "" when the navigation fails
\* (153-160) or <body> cannot be read (176-177); the markup of the first
\* selector that has text (162-167); otherwise, when no selector matches or the
\* content node is still empty or blank, the whole <body> (173-175)
ExtractContentWithPlaywright(item, v, k) ==
    ExtractResults(item, v, k) \cup
    (IF k > 0 THEN {[html |-> Body(item, v), k |-> k - 1],
                    [html |-> Body(item, 0), k |-> k - 1]}
     ELSE {})

\* ask_gpt, lines 188-207, from its call number n + 1 on: the stripped text of
\* the first call that does not raise, "" when the fifth call raises too
RECURSIVE UUEAskGptFrom(_, _, _)
UUEAskGptFrom(prompt, k, n) ==
    {[text |-> Strip(r.text), k |-> r.k, calls |-> n + 1]
     : r \in ApiResponses(prompt, "en", k)} \cup
    (IF k = 0 THEN {}
     ELSE IF n + 1 < MaxAttempts THEN UUEAskGptFrom(prompt, k - 1, n + 1)
     ELSE {[text |-> Empty, k |-> k - 1, calls |-> n + 1]})

\* ask_gpt: five attempts, then ""
UUEAskGpt(prompt, k) == UUEAskGptFrom(prompt, k, 0)

\* len(committed) >= 20
BatchSize == 20

UUEGitCmds ==
    << Cmd("config user.name"), Cmd("config user.email"), Cmd("add -A"), Cmd("diff"),
       Cmd("commit"), Cmd("pull --rebase"), Cmd("push") >>

\* git_add_and_push, lines 244-253: nothing is caught
UUEGitAddAndPush(f, g, k) ==
    Publish("update_user_editorials.git_add_and_push", UUEGitCmds, FALSE, f, g, k)

UUECrash(s) == Finish(s, UUE, s.fs, s.k, s.op, 1, Text("Traceback"))

\* main(), lines 336-342
UUENextContest(s) ==
    IF s.proc.ci < Len(s.proc.cs)
    THEN [s EXCEPT !.proc.pc = "list", !.proc.ci = s.proc.ci + 1, !.proc.map = <<>>]
    ELSE Finish(s, UUE, s.fs, s.k, s.op, 0, Text("log"))

\* git_add_and_push as called from save_user_editorials_for_contest
UUEPush(s) ==
    { [s EXCEPT !.git = g.git, !.pub = g.pub, !.k = g.k, !.proc.map = <<>>]
      : g \in UUEGitAddAndPush(s.fs, s.git, s.k) }

\* save_user_editorials_for_contest, lines 321-323
UUEEndContest(s) ==
    IF s.proc.map # <<>>
    THEN { IF g.pub.escaped THEN UUECrash(g) ELSE UUENextContest(g) : g \in UUEPush(s) }
    ELSE {UUENextContest(s)}

\* the end of one iteration of the loop over the pairs
UUEAfterItem(s) ==
    IF s.proc.i < Len(s.proc.ids)
    THEN {[s EXCEPT !.proc.pc = "ja", !.proc.i = s.proc.i + 1]}
    ELSE UUEEndContest(s)

\* get_all_contests, lines 75-97: page after page until a fetch fails or a page
\* lists no contest; what was collected up to there is returned
RECURSIVE UUEGetAllContests(_, _, _)
UUEGetAllContests(pages, out, k) ==
    UNION { IF ~r.ok \/ pages = <<>> THEN {[cs |-> out, k |-> r.k]}
            ELSE UUEGetAllContests(Tail(pages), out \o Head(pages), r.k)
            : r \in FetchText(k) }

\* main(), lines 325-340: the browser is launched outside any try, before the
\* contest list is read
UUEMainSteps(s) ==
    UNION {
      IF ~b.ok THEN {UUECrash([s EXCEPT !.k = b.k])}
      ELSE IF s.proc.args.contest # NoContest
      THEN {[s EXCEPT !.proc.pc = "list", !.proc.cs = <<s.proc.args.contest>>,
                      !.proc.ci = 1, !.k = b.k]}
      ELSE { IF l.cs # <<>>
             THEN [s EXCEPT !.proc.pc = "list", !.proc.cs = l.cs, !.proc.ci = 1, !.k = l.k]
             ELSE Finish(s, UUE, s.fs, l.k, s.op, 0, Text("log"))
             : l \in UUEGetAllContests(ContestPages, <<>>, b.k) }
      : b \in MayFail(s.k) }

\* pairs[:limit] under `if limit:`; a negative limit counts from the end
Limited(pairs, limit) ==
    IF limit = 0 THEN pairs
    ELSE IF limit > 0
    THEN SubSeq(pairs, 1, IF limit < Len(pairs) THEN limit ELSE Len(pairs))
    ELSE SubSeq(pairs, 1, IF Len(pairs) + limit > 0 THEN Len(pairs) + limit ELSE 0)

\* save_user_editorials_for_contest, lines 261-266
UUEListSteps(s) ==
    { LET pairs == Limited(l.pairs, s.proc.args.limit) IN
      IF pairs = <<>> THEN UUENextContest([s EXCEPT !.k = l.k])
      ELSE [s EXCEPT !.proc.pc = "ja", !.proc.contest = s.proc.cs[s.proc.ci],
                     !.proc.ids = pairs, !.proc.i = 1, !.proc.map = <<>>, !.k = l.k]
      : l \in ListUserEditorialsInContest(s.proc.cs[s.proc.ci], s.k) }

\* save_user_editorials_for_contest, lines 268-296
UUEJaSteps(s) ==
    LET c == s.proc.contest
        tu == s.proc.ids[s.proc.i]
        ja_path == Path("ja", "user_editorial", c, tu[2]) IN
    IF s.proc.args.dry THEN UUEAfterItem(s)
    ELSE IF Exists(s.fs, ja_path)
    THEN {[s EXCEPT !.proc.pc = "en", !.op = Op(UUE, "save_ja", ja_path, s.fs, s.fs, 0, 0)]}
    ELSE UNION {
           IF IsBlank(r.html)
           THEN UUEAfterItem([s EXCEPT !.k = r.k,
                                       !.op = Op(UUE, "save_ja", ja_path, s.fs, s.fs, 1, 0)])
           ELSE LET g == Write(s.fs, ja_path, r.html) IN
                {[s EXCEPT !.proc.pc = "en", !.fs = g, !.k = r.k,
                           !.op = Op(UUE, "save_ja", ja_path, s.fs, g, 1, 0)]}
           : r \in ExtractContentWithPlaywright(Item(c, "user", tu[1], tu[2]), upv, s.k) }

\* save_user_editorials_for_contest, lines 298-319, given what ask_gpt returns:
\* a render failure is caught and the file stays as render_html_with_playwright
\* left it
UUEEnWith(s, answers) ==
    LET c == s.proc.contest
        tu == s.proc.ids[s.proc.i]
        ja_path == Path("ja", "user_editorial", c, tu[2])
        en_path == Path("en", "user_editorial", c, tu[2]) IN
    IF Exists(s.fs, en_path)
    THEN UUEAfterItem([s EXCEPT !.op = Op(UUE, "translate_en", en_path, s.fs, s.fs, 0, 0)])
    ELSE UNION {
           IF IsBlank(a.text)
           THEN UUEAfterItem([s EXCEPT !.k = a.k,
                                !.op = Op(UUE, "translate_en", en_path, s.fs, s.fs, 0,
                                          a.calls)])
           ELSE UNION {
                  LET g == RenderHtmlWithPlaywright(Write(s.fs, en_path, a.text),
                                                    en_path, b.ok)
                      t == [s EXCEPT !.fs = g, !.k = b.k,
                                     !.op = Op(UUE, "translate_en", en_path, s.fs, g, 0,
                                               a.calls),
                                     !.proc.map = Append(s.proc.map, en_path)] IN
                  IF Len(t.proc.map) >= BatchSize
                  THEN UNION { IF u.pub.escaped THEN {UUECrash(u)} ELSE UUEAfterItem(u)
                               : u \in UUEPush(t) }
                  ELSE UUEAfterItem(t)
                  : b \in BrowserResults(a.k) }
           : a \in answers }

UUEEnSteps(s) ==
    LET ja_path == Path("ja", "user_editorial", s.proc.contest, s.proc.ids[s.proc.i][2]) IN
    UUEEnWith(s, IF Exists(s.fs, ja_path)
                 THEN UUEAskGpt(HtmlKatex(s.fs[ja_path]), s.k) ELSE {})

UUESteps(s) ==
    CASE s.proc.pc = "main" -> UUEMainSteps(s)
      [] s.proc.pc = "list" -> UUEListSteps(s)
      [] s.proc.pc = "ja" -> UUEJaSteps(s)
      [] s.proc.pc = "en" -> UUEEnSteps(s)

UUEMain == Running(UUE, "main") /\ (\E r \in UUEMainSteps(Cur) : Apply(r)) /\ Env
UUEList == Running(UUE, "list") /\ (\E r \in UUEListSteps(Cur) : Apply(r)) /\ Env
UUEJa == Running(UUE, "ja") /\ (\E r \in UUEJaSteps(Cur) : Apply(r)) /\ Env
UUEEn == Running(UUE, "en") /\ (\E r \in UUEEnSteps(Cur) : Apply(r)) /\ Env

\* ================================================================= languages/code.py
LC == "languages/code"

\* sorted(set(out)) of get_all_contests: the contest names in string order
LCContests == <<"c1", "c2">>

LCCrash(s, f, k, op) == Finish(s, LC, f, k, op, 1, Text("Traceback"))
LCDone(s, f, k, op) == Finish(s, LC, f, k, op, 0, Text("log"))

LCNextContest(q) ==
    IF q.ci < Len(q.cs) THEN [q EXCEPT !.pc = "index", !.ci = q.ci + 1] ELSE Idle

LCNextItem(q) ==
    IF q.i < Len(q.ids) THEN [q EXCEPT !.pc = "ja", !.i = q.i + 1] ELSE LCNextContest(q)

LCGo(s, q, f, k, op) == IF q = Idle THEN LCDone(s, f, k, op) ELSE Goto(s, q, f, k, op)

\* main(), line 90
LCMainSteps(s) ==
    { IF ~r.ok THEN LCCrash(s, s.fs, r.k, s.op)
      ELSE Goto(s, [s.proc EXCEPT !.pc = "index", !.cs = LCContests, !.ci = 1],
                s.fs, r.k, s.op)
      : r \in MayFail(s.k) }

\* main(), lines 91-117: the editorial index of a contest and the user anchors
\* of its <div id="editorials">; an exception and an error status are caught
LCIndexSteps(s) ==
    UNION {
      IF r.status # "ok" THEN {LCGo(s, LCNextContest(s.proc), s.fs, r.k, s.op)}
      ELSE { LET ids == UserAnchorsIn("div", tag) IN
             IF ids = <<>> THEN LCGo(s, LCNextContest(s.proc), s.fs, r.k, s.op)
             ELSE Goto(s, [s.proc EXCEPT !.pc = "ja", !.contest = s.proc.cs[s.proc.ci],
                                         !.ids = ids, !.i = 1], s.fs, r.k, s.op)
             : tag \in EditorialsTags }
      : r \in HttpGet(s.k) }

\* main(), lines 129-138: the page of one editorial; found = FALSE when the
\* request fails or the page has no <div id="editorial_content">, otherwise
\* decode_contents() of the div, which may be empty or blank
LCEditorialContent(item, v, k) ==
    {[found |-> TRUE, html |-> Src(item, v), k |-> k]} \cup
    (IF k > 0
     THEN {[found |-> FALSE, html |-> Empty, k |-> k - 1],
           [found |-> TRUE, html |-> Empty, k |-> k - 1],
           [found |-> TRUE, html |-> Blank, k |-> k - 1]}
     ELSE {})

\* main(), lines 119-144
LCJaSteps(s) ==
    LET c == s.proc.contest
        tu == s.proc.ids[s.proc.i]
        ja_file == Path("ja", "user_editorial", c, tu[2])
        toEn == [s.proc EXCEPT !.pc = "en"] IN
    IF Exists(s.fs, ja_file)
    THEN {Goto(s, toEn, s.fs, s.k, Op(LC, "save_ja", ja_file, s.fs, s.fs, 0, 0))}
    ELSE { IF ~r.found
           THEN LCGo(s, LCNextItem(s.proc), s.fs, r.k,
                     Op(LC, "save_ja", ja_file, s.fs, s.fs, 1, 0))
           ELSE LET g == Write(s.fs, ja_file, r.html) IN
                Goto(s, toEn, g, r.k, Op(LC, "save_ja", ja_file, s.fs, g, 1, 0))
           : r \in LCEditorialContent(Item(c, "user", tu[1], tu[2]), upv, s.k) }

\* translate_html: message.content as returned, not stripped, not checked;
\* raised = the API call raised; HtmlKatex stands for html_to_tex_placeholders
TranslateHtml(jp_html, k) ==
    {[text |-> r.text, k |-> r.k, raised |-> FALSE]
     : r \in ApiResponses(HtmlKatex(jp_html), "en", k)} \cup
    (IF k > 0 THEN {[text |-> Empty, k |-> k - 1, raised |-> TRUE]} ELSE {})

\* main(), lines 146-159: whatever the model returned is written; an
\* exception is caught and the loop goes on with the next anchor
LCEnSteps(s) ==
    LET c == s.proc.contest
        tu == s.proc.ids[s.proc.i]
        ja_file == Path("ja", "user_editorial", c, tu[2])
        en_file == Path("en", "user_editorial", c, tu[2])
        next == LCNextItem(s.proc) IN
    IF Exists(s.fs, en_file)
    THEN {LCGo(s, next, s.fs, s.k, Op(LC, "translate_en", en_file, s.fs, s.fs, 0, 0))}
    ELSE { LET g == IF a.raised THEN s.fs ELSE Write(s.fs, en_file, a.text) IN
           LCGo(s, next, g, a.k, Op(LC, "translate_en", en_file, s.fs, g, 0, 1))
           : a \in TranslateHtml(s.fs[ja_file], s.k) }

LCSteps(s) ==
    CASE s.proc.pc = "main" -> LCMainSteps(s)
      [] s.proc.pc = "index" -> LCIndexSteps(s)
      [] s.proc.pc = "ja" -> LCJaSteps(s)
      [] s.proc.pc = "en" -> LCEnSteps(s)

LCMain == Running(LC, "main") /\ (\E r \in LCMainSteps(Cur) : Apply(r)) /\ Env
LCIndex == Running(LC, "index") /\ (\E r \in LCIndexSteps(Cur) : Apply(r)) /\ Env
LCJa == Running(LC, "ja") /\ (\E r \in LCJaSteps(Cur) : Apply(r)) /\ Env
LCEn == Running(LC, "en") /\ (\E r \in LCEnSteps(Cur) : Apply(r)) /\ Env

\* ============================================================ translate_specific.py
TS == "translate_specific"

\* the positional arguments (kind, contest, item_id) and --user_id (0: not given)
ToolArgs(kind, c, item, user) ==
    [kind |-> kind, contest |-> c, item |-> item, user |-> user,
     json |-> FALSE, limit |-> 0, dry |-> FALSE]

HasItem(x) == x.form \notin {"absent", "empty", "blank", "shell", "other"}

\* render_html_with_playwright of the tools: the wrapper document, then the
\* final document around the rendered body (an empty body for an empty file)
ToolRender(f, p, ok) ==
    IF HasItem(f[p]) THEN RenderHtmlWithPlaywright(f, p, ok)
    ELSE Write(f, p, [form |-> "shell"])

\* wrap_display
ToolWrapDisplay(f, p) == IF HasItem(f[p]) THEN Write(f, p, WrapDisplay(f[p])) ELSE f

\* subdirs[kind]
Subdirs(kind) == IF kind = "task" THEN "tasks" ELSE kind

\* steps 2-4 of both tools: one chat completion (an API error is not caught),
\* the stripped answer written over en_path, rendering (not caught), wrapping;
\* launch says whether the browser is launched only now, after the write
\* (translate_specific.py, lines 147-148), outside any try
ToolTranslate(s, script, latex_ready, en_path, nf, launch) ==
    LET op(g, nl) == Op(script, "translate_specific", en_path, s.fs, g, nf, nl) IN
    UNION {
      IF ~m.ok THEN {Finish(s, script, s.fs, m.k, op(s.fs, 1), 1, Text("Traceback"))}
      ELSE UNION {
             LET raw == Write(s.fs, en_path, Strip(x.text)) IN
             UNION {
               IF ~l.ok THEN {Finish(s, script, raw, l.k, op(raw, 1), 1, Text("Traceback"))}
               ELSE { LET w == ToolRender(raw, en_path, b.ok)
                          g == ToolWrapDisplay(w, en_path) IN
                      IF b.ok THEN Finish(s, script, g, b.k, op(g, 1), 0, Text("[Done]"))
                      ELSE Finish(s, script, w, b.k, op(w, 1), 1, Text("Traceback"))
                      : b \in BrowserResults(l.k) }
               : l \in IF launch THEN MayFail(x.k) ELSE {[ok |-> TRUE, k |-> x.k]} }
             : x \in ApiResponses(latex_ready, "en", m.k) }
      : m \in MayFail(s.k) }

\* translate_specific: the source is read from the cache, never fetched
TranslateSpecific(s) ==
    LET a == s.proc.args
        ja_path == Path("ja", Subdirs(a.kind), a.contest, a.item)
        en_path == Path("en", Subdirs(a.kind), a.contest, a.item) IN
    IF ~Exists(s.fs, ja_path)
    THEN {Finish(s, TS, s.fs, s.k, Op(TS, "translate_specific", en_path, s.fs, s.fs, 0, 0),
                 0, Text("[Error]"))}
    ELSE ToolTranslate(s, TS, HtmlKatex(s.fs[ja_path]), en_path, 0, TRUE)

\* ============================================================== translate_with_js.py
TJ == "translate_with_js"

\* apply_markdown: ***, **bold** and *italic* become tags
ApplyMarkdown(x) == [x EXCEPT !.form = "md"]

\* the file of a user editorial: {item_id}/{user_id}.html
OutfilePath(lang, dir, c, item, user) == <<lang, dir, c, item, user>>

\* translate_specific_remote: the browser is launched (line 184), then the page
\* is fetched (line 189); neither error is caught, and only the English file is
\* written
TranslateSpecificRemote(s) ==
    LET a == s.proc.args
        user == a.kind = "user_editorial"
        item == Item(a.contest, IF user THEN "user" ELSE a.kind, a.item, a.user)
        en_path == IF user THEN OutfilePath("en", "user_editorial", a.contest, a.item, a.user)
                   ELSE Path("en", Subdirs(a.kind), a.contest, a.item) IN
    IF user /\ a.user = 0
    THEN {Finish(s, TJ, s.fs, s.k, s.op, 0, Text("[Error]"))}
    ELSE UNION {
           IF ~l.ok
           THEN {Finish(s, TJ, s.fs, l.k, Op(TJ, "translate_specific", en_path, s.fs, s.fs, 0, 0),
                        1, Text("Traceback"))}
           ELSE UNION {
                  IF ~r.ok
                  THEN {Finish(s, TJ, s.fs, r.k,
                               Op(TJ, "translate_specific", en_path, s.fs, s.fs, 1, 0),
                               1, Text("Traceback"))}
                  ELSE ToolTranslate([s EXCEPT !.k = r.k], TJ,
                                     HtmlKatex(ApplyMarkdown(Src(item, upv))), en_path, 1, FALSE)
                  : r \in MayFail(l.k) }
           : l \in MayFail(s.k) }

TSMain == Running(TS, "main") /\ (\E r \in TranslateSpecific(Cur) : Apply(r)) /\ Env
TJMain == Running(TJ, "main") /\ (\E r \in TranslateSpecificRemote(Cur) : Apply(r)) /\ Env

\* ============================================================ participate_today.py
PT == "participate_today"

\* main(): get_today_contests raises when the home page cannot be fetched; the
\* failures of participate() are caught; nothing is written to the cache
PTSteps(s) ==
    { Finish(s, PT, s.fs, r.k, s.op, IF r.ok THEN 0 ELSE 1,
             IF r.ok THEN Text("log") ELSE Text("Traceback"))
      : r \in MayFail(s.k) }

\* ------------------------------------------------------------- subprocesses
RECURSIVE RunToEnd(_)

\* subprocess.run(cmd, shell=True): the command runs to its end on the caller's
\* working tree before the caller goes on
Subprocess(s, script, args) ==
    RunToEnd([s EXCEPT !.proc = Spawn(script, args), !.trail = <<>>, !.op = NoOp,
                       !.pub = NoPub, !.exit = NoExit])

\* a statement of a driver script: run(script), sleep_until(hour), git_sync, ...
Stmt(kind, script, hour) == [kind |-> kind, script |-> script, hour |-> hour]

\* one executed statement of a driver script: the statement, the arguments of
\* its command, the exit code the command ended with, and the day of the month
\* if the statement read it
Entry(cmd, args, rc, day) == [cmd |-> cmd, args |-> args, rc |-> rc, day |-> day]

\* the caller goes on at q after the child ended in state t
Resume(s, t, q, cmd, args) ==
    [t EXCEPT !.proc = q, !.trail = Append(s.trail, Entry(cmd, args, t.exit.rc, 0)),
              !.op = NoOp]

\* ================================================================ update_past3.py
P3 == "update_past3"

\* out[:3]
Past3 == 3

\* get_past3_contests: raise_for_status raises; else the first three contests
GetPast3Contests(k) ==
    { [ok |-> r.ok, k |-> r.k,
       contests |-> IF Len(AllContests) > Past3 THEN SubSeq(AllContests, 1, Past3)
                    ELSE AllContests]
      : r \in MayFail(k) }

\* main(), lines 41-47: the three commands of one contest, in order
P3Commands == << FT, FE, UUE >>

\* main(), line 40
P3MainSteps(s) ==
    { IF ~r.ok THEN Finish(s, P3, s.fs, r.k, s.op, 1, Text("Traceback"))
      ELSE IF r.contests = <<>> THEN Finish(s, P3, s.fs, r.k, s.op, 0, Text(""))
      ELSE Goto(s, [s.proc EXCEPT !.pc = "run", !.cs = r.contests, !.ci = 1, !.i = 1],
                s.fs, r.k, s.op)
      : r \in GetPast3Contests(s.k) }

\* a run() that gives up at the first command that fails
P3AfterRunOrAbort(q, rc) ==
    IF rc # 0 THEN Idle
    ELSE IF q.i < Len(P3Commands) THEN [q EXCEPT !.i = q.i + 1]
    ELSE IF q.ci < Len(q.cs) THEN [q EXCEPT !.ci = q.ci + 1, !.i = 1]
    ELSE Idle

\* the position after one run(): its exit code is not looked at
P3AfterRun(q, rc) ==
    IF q.i < Len(P3Commands) THEN [q EXCEPT !.i = q.i + 1]
    ELSE IF q.ci < Len(q.cs) THEN [q EXCEPT !.ci = q.ci + 1, !.i = 1]
    ELSE Idle

\* run(), lines 28-36, as called at lines 43, 45 and 47 (--no-login is read by
\* no script)
P3RunSteps(s) ==
    LET c == s.proc.cs[s.proc.ci]
        script == P3Commands[s.proc.i] IN
    { LET u == Resume(s, t, P3AfterRun(s.proc, t.exit.rc), Stmt("run", script, 0),
                      ContestArg(c)) IN
      IF u.proc = Idle THEN Finish(u, P3, u.fs, u.k, u.op, 0, Text("log")) ELSE u
      : t \in Subprocess(s, script, ContestArg(c)) }

P3Steps(s) ==
    CASE s.proc.pc = "main" -> P3MainSteps(s)
      [] s.proc.pc = "run" -> P3RunSteps(s)

P3Main == Running(P3, "main") /\ (\E r \in P3MainSteps(Cur) : ApplyStatement(r)) /\ Env
P3Run == Running(P3, "run") /\ (\E r \in P3RunSteps(Cur) : ApplyStatement(r)) /\ Env

\* ============================================================ orchestrate_daily.py
OD == "orchestrate_daily"

DayMinutes == 24 * 60

Clock(day, min) == [day |-> day, min |-> min]

\* minutes since the start of day 0
Instant(t) == t.day * DayMinutes + t.min

ClockAt(n) == Clock(n \div DayMinutes, n % DayMinutes)

\* the clock d minutes later
Advance(t, d) == ClockAt(Instant(t) + d)

\* sleep_until: now.replace(hour, minute) is an instant of the current day
SleepUntil(t, hour, minute) ==
    LET target == Clock(t.day, hour * 60 + minute) IN
    IF Instant(t) < Instant(target) THEN target ELSE t

\* int(j.get("duration_min", 60)) and `except Exception: dmin = 60`
DefaultDurationMin == 60

\* The values of a decoded JSON object, tagged with their Python type:
\*   [t |-> "int", n |-> 90]                   90
\*   [t |-> "float", num |-> 181, den |-> 2]    90.5 (den = 0: inf or nan)
\*   [t |-> "str", s |-> <<57, 48>>]            "90", the code points of its characters
\*   [t |-> "bool", b |-> TRUE]                 true
\*   [t |-> "null"]                             null (lists and objects alike)
\* the characters int() strips from both ends of a string: ASCII white space
\* and the Unicode space characters outside ASCII
Whitespace ==
    {9, 10, 11, 12, 13, 32, 133, 160, 5760, 8192, 8193, 8194, 8195, 8196, 8197, 8198,
     8199, 8200, 8201, 8202, 8232, 8233, 8239, 8287, 12288}

DecimalZeros ==
    {48, 1632, 1776, 1984, 2406, 2534, 2662, 2790, 2918, 3046, 3174, 3302, 3430, 3558,
     3664, 3792, 3872, 4160, 4240, 6112, 6160, 6470, 6608, 6784, 6800, 6992, 7088,
     7232, 7248, 42528, 43216, 43264, 43472, 43504, 43600, 44016, 65296, 66720, 68912,
     69734, 69872, 69942, 70096, 70384, 70736, 70864, 71248, 71360, 71472, 71904,
     72016, 72784, 73040, 73120, 92768, 92864, 93008, 120782, 120792, 120802, 120812,
     120822, 123200, 123632, 125264, 130032}

\* the digits zero of the Unicode decimal digits; the nine characters after
\* each are its digits 1 to 9
IsDigit(c) == \E z \in DecimalZeros : z <= c /\ c <= z + 9
DigitValue(c) == c - (CHOOSE z \in DecimalZeros : z <= c /\ c <= z + 9)

\* "_", "+", "-"
Underscore == {95}
Signs == {43, 45}

\* the stripping of int(str)
RECURSIVE PyStrip(_)
PyStrip(q) ==
    IF q # <<>> /\ Head(q) \in Whitespace THEN PyStrip(Tail(q))
    ELSE IF q # <<>> /\ q[Len(q)] \in Whitespace THEN PyStrip(SubSeq(q, 1, Len(q) - 1))
    ELSE q

\* digits with single underscores between them
IsDecimalLiteral(q) ==
    /\ q # <<>>
    /\ \A n \in 1..Len(q) : IsDigit(q[n]) \/ q[n] \in Underscore
    /\ q[1] \notin Underscore /\ q[Len(q)] \notin Underscore
    /\ \A n \in 1..(Len(q) - 1) : ~(q[n] \in Underscore /\ q[n + 1] \in Underscore)

RECURSIVE DecimalValue(_, _)
DecimalValue(q, acc) ==
    IF q = <<>> THEN acc
    ELSE IF Head(q) \in Underscore THEN DecimalValue(Tail(q), acc)
    ELSE DecimalValue(Tail(q), 10 * acc + DigitValue(Head(q)))

\* int(x): ok = FALSE when it raises (TypeError, ValueError, OverflowError)
PyInt(x) ==
    CASE x.t = "int" -> [ok |-> TRUE, n |-> x.n]
      [] x.t = "bool" -> [ok |-> TRUE, n |-> IF x.b THEN 1 ELSE 0]
      [] x.t = "float" ->
            IF x.den = 0 THEN [ok |-> FALSE, n |-> 0]
            ELSE [ok |-> TRUE,
                  n |-> IF x.num >= 0 THEN x.num \div x.den ELSE -((-x.num) \div x.den)]
      [] x.t = "str" ->
            LET t == PyStrip(x.s)
                signed == t # <<>> /\ Head(t) \in Signs
                body == IF signed THEN Tail(t) ELSE t IN
            IF IsDecimalLiteral(body)
            THEN [ok |-> TRUE,
                  n |-> IF signed /\ Head(t) = 45 THEN -DecimalValue(body, 0)
                        ELSE DecimalValue(body, 0)]
            ELSE [ok |-> FALSE, n |-> 0]
      [] OTHER -> [ok |-> FALSE, n |-> 0]

\* main(), lines 92-97: the last line of the captured stdout, parsed; out.obj
\* is the decoded object, a function from its keys to tagged values
ParseDurationMin(out) ==
    IF ~out.json THEN DefaultDurationMin
    ELSE IF "duration_min" \notin DOMAIN out.obj THEN DefaultDurationMin
    ELSE IF PyInt(out.obj.duration_min).ok THEN PyInt(out.obj.duration_min).n
    ELSE DefaultDurationMin

\* an orchestrator that updates the user editorials every day
UserEditorialsEveryDay(today) == today.day % 1 = 0

\* today.day % 7 == 0
UserEditorialsDay(today) == today.day % 7 = 0

GitSyncCmds ==
    << Cmd("config user.name"), Cmd("config user.email"), Cmd("add -A"), Cmd("diff"),
       Cmd("commit"), Cmd("pull --rebase"), Cmd("push") >>

\* git_sync, lines 31-53: CalledProcessError is caught
GitSync(f, g, k) == Publish("orchestrate_daily.git_sync", GitSyncCmds, TRUE, f, g, k)

\* main(), lines 73-129: its statements in program order
ODMain ==
    << Stmt("sleep_until", "", 20), Stmt("run", PT, 0), Stmt("git_sync", "", 0),
       Stmt("sleep_until", "", 21), Stmt("run", FT, 0), Stmt("git_sync", "", 0),
       Stmt("contest_json", FT, 0), Stmt("wait_contest_end", "", 21),
       Stmt("run", FE, 0), Stmt("git_sync", "", 0),
       Stmt("run", P3, 0), Stmt("git_sync", "", 0),
       Stmt("day_check", "", 0), Stmt("run", UUE, 0), Stmt("git_sync", "", 0) >>

\* the statement the orchestrator is at
ODAt(q) == ODMain[q.i]

ODDone(s) == Finish(s, OD, s.fs, s.k, s.op, 0, Text("log"))

\* falling through to the next statement; main() returns after the last one
ODNext(s) ==
    IF s.proc.i < Len(ODMain) THEN [s EXCEPT !.proc.i = s.proc.i + 1] ELSE ODDone(s)

ODLog(s, cmd, day) ==
    [s EXCEPT !.trail = Append(s.trail, Entry(cmd, NoArgs, 0, day))]

\* sleep_until(20), sleep_until(21)
ODSleepUntilSteps(s) ==
    { ODNext(ODLog([s EXCEPT !.now = SleepUntil(s.now, ODAt(s.proc).hour, 0)],
                   ODAt(s.proc), 0)) }

\* run(cmd), lines 21-26: the exit code is printed when it is not 0, and returned
\* to a caller that drops it
ODRunSteps(s) ==
    { ODNext([Resume(s, t, s.proc, ODAt(s.proc), NoArgs)
                EXCEPT !.now = Advance(s.now, d)])
      : t \in Subprocess(s, ODAt(s.proc).script, NoArgs), d \in RunMinutes }

ODGitSyncSteps(s) ==
    { ODNext(ODLog([s EXCEPT !.git = g.git, !.pub = g.pub, !.k = g.k], ODAt(s.proc), 0))
      : g \in GitSync(s.fs, s.git, s.k) }

\* main(), lines 88-98: fetch_and_translate.py --contest-json with captured stdout
ODContestJsonSteps(s) ==
    { ODNext([Resume(s, t, s.proc, ODAt(s.proc), JsonArg)
                EXCEPT !.now = Advance(s.now, d),
                       !.proc.dmin = ParseDurationMin(t.exit.out)])
      : t \in Subprocess(s, ODAt(s.proc).script, JsonArg), d \in RunMinutes }

\* main(), lines 100-112: 21:00 of the current day plus dmin minutes
ODWaitContestEndSteps(s) ==
    LET contest_start == Clock(s.now.day, ODAt(s.proc).hour * 60)
        end_time == Advance(contest_start, s.proc.dmin) IN
    { ODNext(ODLog([s EXCEPT !.now = IF Instant(end_time) - Instant(s.now) > 0
                                     THEN end_time ELSE s.now],
                   ODAt(s.proc), 0)) }

\* main(), lines 125-126
ODDayCheckSteps(s) ==
    { IF UserEditorialsDay(s.now) THEN ODNext(ODLog(s, ODAt(s.proc), s.now.day))
      ELSE ODDone(ODLog(s, ODAt(s.proc), s.now.day)) }

\* the process has started: main() is entered
ODMainSteps(s) == {[s EXCEPT !.proc.pc = "stmt", !.proc.i = 1]}

ODSteps(s) ==
    CASE s.proc.pc = "main" -> ODMainSteps(s)
      [] ODAt(s.proc).kind = "sleep_until" -> ODSleepUntilSteps(s)
      [] ODAt(s.proc).kind = "run" -> ODRunSteps(s)
      [] ODAt(s.proc).kind = "git_sync" -> ODGitSyncSteps(s)
      [] ODAt(s.proc).kind = "contest_json" -> ODContestJsonSteps(s)
      [] ODAt(s.proc).kind = "wait_contest_end" -> ODWaitContestEndSteps(s)
      [] ODAt(s.proc).kind = "day_check" -> ODDayCheckSteps(s)

ODRunning(kind) == Running(OD, "stmt") /\ ODAt(proc).kind = kind

ODStart == Running(OD, "main") /\ (\E r \in ODMainSteps(Cur) : ApplyStatement(r)) /\ Env
ODSleepUntil ==
    ODRunning("sleep_until") /\ (\E r \in ODSleepUntilSteps(Cur) : ApplyStatement(r)) /\ Env
ODRun == ODRunning("run") /\ (\E r \in ODRunSteps(Cur) : ApplyStatement(r)) /\ Env
ODGitSync == ODRunning("git_sync") /\ (\E r \in ODGitSyncSteps(Cur) : ApplyStatement(r)) /\ Env
ODContestJson ==
    ODRunning("contest_json") /\ (\E r \in ODContestJsonSteps(Cur) : ApplyStatement(r)) /\ Env
ODWaitContestEnd ==
    /\ ODRunning("wait_contest_end")
    /\ (\E r \in ODWaitContestEndSteps(Cur) : ApplyStatement(r))
    /\ Env
ODDayCheck == ODRunning("day_check") /\ (\E r \in ODDayCheckSteps(Cur) : ApplyStatement(r)) /\ Env

\* ------------------------------------------------- a subprocess, run to its end
\* one step of the script a process runs
Steps(s) ==
    CASE s.proc.script = FT -> FTSteps(s)
      [] s.proc.script = FE -> FESteps(s)
      [] s.proc.script = UUE -> UUESteps(s)
      [] s.proc.script = PT -> PTSteps(s)
      [] s.proc.script = P3 -> P3Steps(s)

RunToEnd(s) == IF s.proc = Idle THEN {s} ELSE UNION { RunToEnd(t) : t \in Steps(s) }

\* ------------------------------------------------------------- invocation
\* a script is started from the command line
Invoke(script, args) ==
    /\ runs < MaxRuns
    /\ runs' = runs + 1
    /\ proc' = Spawn(script, args)
    /\ exit' = NoExit
    /\ lastOp' = NoOp
    /\ lastPub' = NoPub
    /\ trail' = <<>>
    /\ since' = now
    /\ UNCHANGED <<fs, faults, upv, latest, snap, git, now, peer>>

\* the scripts run without arguments
RunFetchAndTranslate == proc = Idle /\ Invoke(FT, NoArgs)
RunFetchEditorial == proc = Idle /\ Invoke(FE, NoArgs)
RunFetchLatestEnded == proc = Idle /\ Invoke(FL, NoArgs)
RunUpdateUserEditorial == proc = Idle /\ Invoke(UE, NoArgs)
RunUpdateUserEditorials == proc = Idle /\ Invoke(UUE, NoArgs)
RunLanguagesCode == proc = Idle /\ Invoke(LC, NoArgs)

\* the scripts run with the command-line arguments their callers pass
RunFetchAndTranslateArgs ==
    proc = Idle /\ \E a \in {ContestArg("c2"), JsonArg} : Invoke(FT, a)
RunFetchEditorialArgs == proc = Idle /\ Invoke(FE, ContestArg("c2"))
RunUpdateUserEditorialsArgs ==
    proc = Idle /\ \E a \in {ContestArg("c2"), LimitArg(1), LimitArg(-1), DryRunArg} :
        Invoke(UUE, a)

\* the site's content is edited between two runs (an edit before anything is
\* cached is the same as another first version)
UpstreamEdit ==
    /\ proc = Idle
    /\ fs # << >>
    /\ upv + 1 \in Versions
    /\ upv' = upv + 1
    /\ UNCHANGED <<fs, proc, exit, lastOp, faults, latest, runs, snap, git, lastPub,
                   now, trail, peer, since>>

Init ==
    /\ fs = << >>
    /\ proc = Idle
    /\ exit = NoExit
    /\ lastOp = NoOp
    /\ faults = MaxFaults
    /\ upv = 1
    /\ latest \in LatestChoices
    /\ runs = 0
    /\ snap = << >>
    /\ git = NoGit
    /\ lastPub = NoPub
    /\ now = Head(StartChoices)
    /\ trail = <<>>
    /\ peer = Idle
    /\ since = now

\* sequential runs of the batch scripts
Next ==
    \/ RunFetchAndTranslate
    \/ FTMain \/ FTJpTask \/ FTEnTask \/ FTJpExpl \/ FTEnExpl \/ FTOtherTask \/ FTOtherExpl
    \/ RunFetchEditorial
    \/ FEMain \/ FEJp \/ FEEn \/ FEOther
    \/ RunFetchLatestEnded
    \/ FLMain \/ FLTasks \/ FLEditorial
    \/ RunUpdateUserEditorial
    \/ UEMain \/ UEIndex \/ UEJa \/ UEEn
    \/ RunUpdateUserEditorials
    \/ UUEMain \/ UUEList \/ UUEJa \/ UUEEn
    \/ UpstreamEdit

Spec == Init /\ [][Next]_vars

\* sequential runs of the scripts that take arguments, with arguments
ArgNext ==
    \/ RunFetchAndTranslateArgs
    \/ FTMain \/ FTJpTask \/ FTEnTask \/ FTJpExpl \/ FTEnExpl \/ FTOtherTask \/ FTOtherExpl
    \/ RunFetchEditorialArgs
    \/ FEMain \/ FEJp \/ FEEn \/ FEOther
    \/ RunUpdateUserEditorialsArgs
    \/ UUEMain \/ UUEList \/ UUEJa \/ UUEEn
    \/ UpstreamEdit

ArgSpec == Init /\ [][ArgNext]_vars

\* sequential runs of languages/code.py
LangNext ==
    \/ RunLanguagesCode
    \/ LCMain \/ LCIndex \/ LCJa \/ LCEn
    \/ UpstreamEdit

LangSpec == Init /\ [][LangNext]_vars

\* the item-specific tools, run by hand between runs of the batch scripts that
\* keep their files under languages/{ja,en}/contests
TSArgs ==
    {ToolArgs("task", "c1", 9, 0), ToolArgs("editorial", "c1", 9, 0),
     ToolArgs("user_editorial", "c1", 7, 0)}
TJArgs ==
    {ToolArgs("task", "c1", 9, 0), ToolArgs("editorial", "c1", 9, 0),
     ToolArgs("user_editorial", "c1", 9, 7), ToolArgs("user_editorial", "c1", 9, 0)}

RunTranslateSpecific == proc = Idle /\ \E a \in TSArgs : Invoke(TS, a)
RunTranslateWithJs == proc = Idle /\ \E a \in TJArgs : Invoke(TJ, a)

ToolNext ==
    \/ RunTranslateSpecific \/ TSMain
    \/ RunTranslateWithJs \/ TJMain
    \/ RunFetchEditorial
    \/ FEMain \/ FEJp \/ FEEn \/ FEOther
    \/ RunUpdateUserEditorial
    \/ UEMain \/ UEIndex \/ UEJa \/ UEEn
    \/ UpstreamEdit

ToolSpec == Init /\ [][ToolNext]_vars

\* -------------------------------------------- HtmlKatex and rendering, by character
\* The TeX source of one rendered-math node, as the characters of its
\* <annotation encoding="application/x-tex">.
MaxTex == 3
TexChars == {"x", " ", "<"}
TexSources == UNION {[1..n -> TexChars] : n \in 1..MaxTex}

\* str.strip()
RECURSIVE LStrip(_)
LStrip(t) == IF t # <<>> /\ Head(t) = " " THEN LStrip(Tail(t)) ELSE t
RECURSIVE RStrip(_)
RStrip(t) ==
    IF t # <<>> /\ t[Len(t)] = " " THEN RStrip(SubSeq(t, 1, Len(t) - 1)) ELSE t
StripText(t) == RStrip(LStrip(t))

\* str(soup): the text of a node is written with < as an entity
RECURSIVE EscapeText(_)
EscapeText(t) ==
    IF t = <<>> THEN <<>>
    ELSE (IF Head(t) = "<" THEN <<"&", "l", "t", ";">> ELSE <<Head(t)>>)
         \o EscapeText(Tail(t))

\* the HTML parser of the browser: entities become characters again
RECURSIVE UnescapeText(_)
UnescapeText(t) ==
    IF t = <<>> THEN <<>>
    ELSE IF Len(t) >= 4 /\ SubSeq(t, 1, 4) = <<"&", "l", "t", ";">>
    THEN <<"<">> \o UnescapeText(SubSeq(t, 5, Len(t)))
    ELSE <<Head(t)>> \o UnescapeText(Tail(t))

\* BeautifulSoup(html, "html.parser"): the text of the annotation as the tree
\* holds it; a text made of spaces only is kept as one space
AnnotationText(tex) == IF StripText(tex) = <<>> /\ tex # <<>> THEN <<" ">> ELSE tex

\* HtmlKatex of fetch_and_translate.py (the annotation text is stripped, line
\* 155) and of fetch_editorial.py (it is not, line 131): the node becomes the
\* text $...$, written by str(soup)
HtmlKatexText(script, tex) ==
    <<"$">> \o EscapeText(IF script = FT THEN StripText(AnnotationText(tex))
                          ELSE AnnotationText(tex)) \o <<"$">>

\* renderMathInElement(document.body, delimiters $$ and $) on the text $...$:
\* the math between the delimiters is rendered and the annotation of the
\* rendered node is that math; the text $$ opens a display formula that is
\* never closed, stays text, and no node is made
RenderMathInElement(text) ==
    LET t == UnescapeText(text) IN
    IF Len(t) > 2 THEN [form |-> "math", tex |-> SubSeq(t, 2, Len(t) - 1)]
    ELSE [form |-> "text", text |-> t]

TexPath == Path("ja", "editorial", "c1", 9)

TexInit ==
    /\ \E tex \in TexSources : fs = (TexPath :> [form |-> "katex", tex |-> tex])
    /\ snap = fs
    /\ proc = Idle
    /\ exit = NoExit
    /\ lastOp = NoOp
    /\ faults = 0
    /\ upv = 1
    /\ latest = "c1"
    /\ runs = 0
    /\ git = NoGit
    /\ lastPub = NoPub
    /\ now = Head(StartChoices)
    /\ trail = <<>>
    /\ peer = Idle
    /\ since = now

\* HtmlKatex(html) of one of the two scripts, applied to the fragment
TexHtmlKatex ==
    /\ fs[TexPath].form = "katex"
    /\ \E script \in {FT, FE} :
         /\ fs' = (TexPath :> [form |-> "placeholder",
                               text |-> HtmlKatexText(script, fs[TexPath].tex)])
         /\ lastOp' = [NoOp EXCEPT !.script = script, !.op = "HtmlKatex"]
    /\ UNCHANGED <<proc, exit, faults, upv, latest, runs, snap, git, lastPub, now, trail,
                   peer, since>>

\* the placeholder text rendered in the browser
TexRender ==
    /\ fs[TexPath].form = "placeholder"
    /\ fs' = (TexPath :> RenderMathInElement(fs[TexPath].text))
    /\ lastOp' = [lastOp EXCEPT !.op = "render"]
    /\ UNCHANGED <<proc, exit, faults, upv, latest, runs, snap, git, lastPub, now, trail,
                   peer, since>>

TexNext == TexHtmlKatex \/ TexRender

TexSpec == TexInit /\ [][TexNext]_vars

\* ============================================== the ask_gpt helpers, call by call
\* A chat-completion call either returns the completion or raises; here the
\* API may keep failing for as long as it is called.
\* the completion of a call that succeeds
GptAnswer(prompt) ==
    {[text |-> r.text, k |-> r.k, calls |-> 1] : r \in ApiResponses(prompt, "en", 0)}

\* the outcome of an ask_gpt invocation that made n API calls
WithCalls(r, n) ==
    [r EXCEPT !.op.llms = n,
              !.proc = IF r.proc = Idle THEN Idle ELSE [r.proc EXCEPT !.tries = 0]]

\* a variant of ask_gpt that raises the fifth failure instead of returning ""
UUEAskGptRaising(s) ==
    LET tu == s.proc.ids[s.proc.i]
        ja_path == Path("ja", "user_editorial", s.proc.contest, tu[2])
        en_path == Path("en", "user_editorial", s.proc.contest, tu[2])
        n == s.proc.tries + 1
        s0 == [s EXCEPT !.proc.tries = 0] IN
    IF Exists(s.fs, en_path) \/ ~Exists(s.fs, ja_path) THEN UUEEnSteps(s)
    ELSE { WithCalls(r, n)
           : r \in UUEEnWith(s0, {[a EXCEPT !.text = Strip(a.text)]
                                  : a \in GptAnswer(HtmlKatex(s.fs[ja_path]))}) }
         \cup
         (IF n < MaxAttempts THEN {[s EXCEPT !.proc.tries = n]}
          ELSE {UUECrash([s0 EXCEPT !.op = Op(UUE, "translate_en", en_path, s.fs, s.fs, 0, n)])})

\* update_user_editorials.py: one API call of ask_gpt (lines 188-207) at the
\* item under translation, and what save_user_editorials_for_contest does with
\* the value returned (lines 298-319)
UUEAskGptSteps(s) ==
    LET tu == s.proc.ids[s.proc.i]
        ja_path == Path("ja", "user_editorial", s.proc.contest, tu[2])
        en_path == Path("en", "user_editorial", s.proc.contest, tu[2])
        n == s.proc.tries + 1
        s0 == [s EXCEPT !.proc.tries = 0] IN
    IF Exists(s.fs, en_path) \/ ~Exists(s.fs, ja_path) THEN UUEEnSteps(s)
    ELSE { WithCalls(r, n)
           : r \in UUEEnWith(s0, {[a EXCEPT !.text = Strip(a.text)]
                                  : a \in GptAnswer(HtmlKatex(s.fs[ja_path]))}) }
         \cup
         (IF n < MaxAttempts THEN {[s EXCEPT !.proc.tries = n]}
          ELSE { WithCalls(r, n) : r \in UUEEnWith(s0, {[text |-> Empty, k |-> s.k, calls |-> n]}) })

\* update_user_editorial.py: one API call of ask_gpt (lines 135-153); a failed
\* call sleeps and calls ask_gpt again from inside the except block, one frame
\* deeper, and the exception of the deepest frame leaves main()
UEAskGptSteps(s) ==
    LET tu == s.proc.ids[s.proc.i]
        ja_path == Path("ja", "user_editorial", s.proc.contest, tu[2])
        en_path == Path("en", "user_editorial", s.proc.contest, tu[2])
        n == s.proc.tries + 1
        s0 == [s EXCEPT !.proc.tries = 0] IN
    IF Exists(s.fs, en_path) \/ ~Exists(s.fs, ja_path) THEN UEEnSteps(s)
    ELSE { WithCalls(r, n) : r \in UEEnWith(s0, GptAnswer(HtmlKatex(s.fs[ja_path]))) }
         \cup
         (IF n < RecursionLimit THEN {[s EXCEPT !.proc.tries = n]}
          ELSE {UECrash(s0, s.fs, s.k, Op(UE, "translate_en", en_path, s.fs, s.fs, 0, n))})

UUEAskGptCall == Running(UUE, "en") /\ (\E r \in UUEAskGptSteps(Cur) : Apply(r)) /\ Env
UEAskGptCall == Running(UE, "en") /\ (\E r \in UEAskGptSteps(Cur) : Apply(r)) /\ Env

GptInit ==
    /\ fs = << >>
    /\ proc = Idle
    /\ exit = NoExit
    /\ lastOp = NoOp
    /\ faults = 0
    /\ upv = 1
    /\ latest \in LatestChoices
    /\ runs = 0
    /\ snap = << >>
    /\ git = NoGit
    /\ lastPub = NoPub
    /\ now = Head(StartChoices)
    /\ trail = <<>>
    /\ peer = Idle
    /\ since = now

GptNext ==
    \/ RunUpdateUserEditorial
    \/ UEMain \/ UEIndex \/ UEJa \/ UEAskGptCall
    \/ RunUpdateUserEditorials
    \/ UUEMain \/ UUEList \/ UUEJa \/ UUEAskGptCall

GptSpec == GptInit /\ [][GptNext]_vars

\* ====================================== two fetch_editorial.py processes, one cache
\* translate_editorials_for_contest statement by statement.  Every statement
\* that tests, reads or writes a file of the cache is a step of its own, and
\* another process may run between any two of them.  What a process has read
\* or received and not yet written (inner_html, translated_html,
\* original_content, final_html, html) is in proc.held, the number of API calls
\* ask_gpt made for it in proc.calls.

\* the language of the loop the process is in: the English loop (lines
\* 341-345, j = 0) or the loop over the other languages (lines 347-353)
FELoopLang(q) == IF q.j = 0 THEN "en" ELSE FEOthers[q.j]

\* the process at the next turn of its loop, its local variables gone
FELoopNext(q) ==
    LET q0 == [q EXCEPT !.held = None, !.calls = 0] IN
    IF q.j = 0 THEN FENextEn([q0 EXCEPT !.pc = "en"])
    ELSE FENextOther([q0 EXCEPT !.pc = "other"])

FEJpPath(s) == Path("ja", "editorial", s.proc.contest, s.proc.ids[s.proc.i])
FEOutPath(s) ==
    Path(FELoopLang(s.proc), "editorial", s.proc.contest, s.proc.ids[s.proc.i])

\* the loop of lines 338-339 goes on with the next task, or ends
FEJpNext(s) ==
    [s EXCEPT !.proc = IF s.proc.i < Len(s.proc.ids)
                       THEN [s.proc EXCEPT !.pc = "jp", !.i = s.proc.i + 1, !.held = None]
                       ELSE [s.proc EXCEPT !.pc = "en", !.i = 1, !.held = None]]

\* save_jp_editorial, line 280: jp_path.exists()
FEJpTest(s) ==
    LET p == FEJpPath(s) IN
    IF Exists(s.fs, p)
    THEN {[FEJpNext(s) EXCEPT !.op = Op(FE, "save_jp_editorial", p, s.fs, s.fs, 0, 0)]}
    ELSE {[s EXCEPT !.proc.pc = "jp_fetch"]}

\* save_jp_editorial, lines 284-287: the page is fetched; nothing is written
\* for a blank answer
FEJpFetch(s) ==
    LET p == FEJpPath(s)
        op == Op(FE, "save_jp_editorial", p, s.fs, s.fs, 1, 0) IN
    { IF IsBlank(r.html) THEN [FEJpNext(s) EXCEPT !.k = r.k, !.op = op]
      ELSE [s EXCEPT !.proc.pc = "jp_write", !.proc.held = r.html, !.k = r.k, !.op = op]
      : r \in FetchEditorialHtmlWithPlaywright(s.proc.contest, s.proc.ids[s.proc.i],
                                               upv, s.k) }

\* save_jp_editorial, line 289: jp_path.write_text(inner_html)
FEJpWrite(s) ==
    LET p == FEJpPath(s)
        g == Write(s.fs, p, s.proc.held) IN
    {[FEJpNext(s) EXCEPT !.fs = g, !.op = Op(FE, "save_jp_editorial", p, s.fs, g, 1, 0)]}

\* a variant of the loops that translates every item without any test
FENoTest(s) == {[s EXCEPT !.proc.pc = "translate"]}

\* translate_editorials_for_contest, lines 342 and 350: check_existence_editorial
FELoopTest(s) ==
    IF CheckExistenceEditorial(s.fs, s.proc.contest, s.proc.ids[s.proc.i],
                               FELoopLang(s.proc))
    THEN {FEGo(s, FELoopNext(s.proc))}
    ELSE {[s EXCEPT !.proc.pc = "save"]}

\* save_translated_editorial, lines 309-311: out_path.exists()
FESaveTest(s) ==
    LET p == FEOutPath(s) IN
    IF Exists(s.fs, p)
    THEN {[s EXCEPT !.proc.pc = "push",
                    !.op = Op(FE, "save_translated_editorial", p, s.fs, s.fs, 0, 0)]}
    ELSE {[s EXCEPT !.proc.pc = "translate"]}

\* save_translated_editorial, lines 313-318: the Japanese file is read (an
\* exception when it is missing) and translated; a blank answer ends the call
FETranslate(s) ==
    LET p == FEOutPath(s)
        op(nl) == Op(FE, "save_translated_editorial", p, s.fs, s.fs, 0, nl) IN
    IF ~Exists(s.fs, FEJpPath(s)) THEN {FECrash(s, s.fs, s.k, op(0))}
    ELSE { IF IsBlank(a.text)
           THEN [s EXCEPT !.proc.pc = "push", !.k = a.k, !.op = op(a.calls)]
           ELSE [s EXCEPT !.proc.pc = "write", !.proc.held = a.text,
                          !.proc.calls = a.calls, !.k = a.k, !.op = op(a.calls)]
           : a \in FETranslateHtmlForLang(s.fs[FEJpPath(s)], FELoopLang(s.proc), s.k) }

\* the statement of a process that writes what it holds to out_path and goes
\* on at pc next
FEWriteHeld(s, x, next, op, nl) ==
    LET p == FEOutPath(s)
        g == Write(s.fs, p, x) IN
    {[s EXCEPT !.proc.pc = next, !.proc.held = None, !.fs = g,
               !.op = Op(FE, op, p, s.fs, g, 0, nl)]}

\* the statement of a process that reads out_path and goes on at pc next
FEReadOut(s, next) == {[s EXCEPT !.proc.pc = next, !.proc.held = s.fs[FEOutPath(s)]]}

\* save_translated_editorial, line 320: out_path.write_text(translated_html)
FEWrite(s) == FEWriteHeld(s, s.proc.held, "wrap_read", "save_translated_editorial",
                          s.proc.calls)

\* render_html_with_playwright, line 222: original_content = read_text()
FEWrapRead(s) == FEReadOut(s, "wrap_write")

\* render_html_with_playwright, lines 223-224: the wrapper document is written
FEWrapWrite(s) == FEWriteHeld(s, Wrapped(s.proc.held), "goto",
                              "render_html_with_playwright", 0)

\* render_html_with_playwright, lines 227-244: the browser loads the file
\* (an exception is not caught) and the final document is built from its body
FEGoto(s) ==
    { IF ~b.ok THEN FECrash(s, s.fs, b.k, s.op)
      ELSE [s EXCEPT !.proc.pc = "final_write",
                     !.proc.held = Rendered(s.fs[FEOutPath(s)]), !.k = b.k]
      : b \in BrowserResults(s.k) }

\* render_html_with_playwright, line 246: file_path.write_text(final_html)
FEFinalWrite(s) == FEWriteHeld(s, s.proc.held, "display_read",
                               "render_html_with_playwright", 0)

\* change_editorial_display, lines 256-260: the test and the read of the file
FEDisplayRead(s) ==
    IF ~Exists(s.fs, FEOutPath(s)) THEN {[s EXCEPT !.proc.pc = "push"]}
    ELSE FEReadOut(s, "display_write")

\* change_editorial_display, lines 261-266: the display spans are wrapped and
\* the document is written
FEDisplayWrite(s) == FEWriteHeld(s, WrapDisplay(s.proc.held), "push",
                                 "change_editorial_display", 0)

\* translate_editorials_for_contest, lines 345 and 353: git_add_and_push(...)
FEPush(s) ==
    { FEGo([s EXCEPT !.k = g.k, !.git = g.git, !.pub = g.pub], FELoopNext(s.proc))
      : g \in FEGitAddAndPush(EllipsisPath, s.fs, s.git, s.k) }

FEStatements(s) ==
    CASE s.proc.pc = "main" -> FEMainSteps(s)
      [] s.proc.pc = "jp" -> FEJpTest(s)
      [] s.proc.pc = "jp_fetch" -> FEJpFetch(s)
      [] s.proc.pc = "jp_write" -> FEJpWrite(s)
      [] s.proc.pc \in {"en", "other"} -> FELoopTest(s)
      [] s.proc.pc = "save" -> FESaveTest(s)
      [] s.proc.pc = "translate" -> FETranslate(s)
      [] s.proc.pc = "write" -> FEWrite(s)
      [] s.proc.pc = "wrap_read" -> FEWrapRead(s)
      [] s.proc.pc = "wrap_write" -> FEWrapWrite(s)
      [] s.proc.pc = "goto" -> FEGoto(s)
      [] s.proc.pc = "final_write" -> FEFinalWrite(s)
      [] s.proc.pc = "display_read" -> FEDisplayRead(s)
      [] s.proc.pc = "display_write" -> FEDisplayWrite(s)
      [] s.proc.pc = "push" -> FEPush(s)

\* the second process after its end
PeerDone == [Idle EXCEPT !.script = FE, !.pc = "done"]

WorkerStep == proc.script = FE /\ (\E r \in FEStatements(Cur) : Apply(r)) /\ Env

PeerStart ==
    /\ peer = Idle
    /\ since = now
    /\ peer' = Spawn(FE, NoArgs)
    /\ UNCHANGED <<fs, proc, exit, lastOp, faults, upv, latest, runs, snap, git, lastPub,
                   now, trail, since>>

PeerStep ==
    /\ peer.script = FE
    /\ peer.pc # "done"
    /\ \E r \in FEStatements([Cur EXCEPT !.proc = peer]) :
          /\ peer' = IF r.proc = Idle THEN PeerDone ELSE r.proc
          /\ fs' = r.fs
          /\ faults' = r.k
          /\ lastOp' = r.op
          /\ git' = r.git
          /\ lastPub' = r.pub
    /\ UNCHANGED <<proc, exit, upv, latest, runs, snap, now, trail, since>>

RaceInit ==
    /\ fs = << >>
    /\ proc = Idle
    /\ exit = NoExit
    /\ lastOp = NoOp
    /\ faults = MaxFaults
    /\ upv = 1
    /\ latest = "c2"
    /\ runs = 0
    /\ snap = << >>
    /\ git = NoGit
    /\ lastPub = NoPub
    /\ now = Head(StartChoices)
    /\ trail = <<>>
    /\ peer = Idle
    /\ since = now

RaceNext == RunFetchEditorial \/ WorkerStep \/ PeerStart \/ PeerStep

RaceSpec == RaceInit /\ [][RaceNext]_vars

\* one run of a driver script, started on a fresh checkout: the daily job, or
\* the backfill of the last three contests
RunOrchestrateDaily == proc = Idle /\ runs = 0 /\ Invoke(OD, NoArgs)
RunUpdatePast3 == proc = Idle /\ runs = 0 /\ Invoke(P3, NoArgs)

OrchInit ==
    /\ fs = << >>
    /\ proc = Idle
    /\ exit = NoExit
    /\ lastOp = NoOp
    /\ faults = MaxFaults
    /\ upv = 1
    /\ latest = "c1"
    /\ runs = 0
    /\ snap = << >>
    /\ git = NoGit
    /\ lastPub = NoPub
    /\ now \in SeqRange(StartChoices)
    /\ trail = <<>>
    /\ peer = Idle
    /\ since = now

\* the statements the orchestrator executes itself, and those that wait for a
\* subprocess
ODOwnStep == ODStart \/ ODSleepUntil \/ ODGitSync \/ ODWaitContestEnd \/ ODDayCheck
ODStep == ODOwnStep \/ ODRun \/ ODContestJson

OrchNext ==
    \/ RunOrchestrateDaily
    \/ ODStep
    \/ RunUpdatePast3
    \/ P3Main \/ P3Run

OrchSpec == OrchInit /\ [][OrchNext]_vars

\* every sleep elapses and the orchestrator goes on through its own statements
\* (weak fairness); every subprocess returns (the orchestrator is not forever at
\* a statement that waits for one)
OrchLive ==
    /\ OrchSpec
    /\ WF_vars(ODOwnStep)
    /\ []<>(~ODRunning("run"))
    /\ []<>(~ODRunning("contest_json"))

\* ================================================================== claims
\* the language directories that hold scraped (source) fragments
SourceLangs == {"ja", "jp"}

FetchOrSkipOps ==
    {"save_jp_task", "save_jp_explanation", "save_jp_editorial", "save_div_innerhtml",
     "save_translated_task", "save_translated_explanation", "save_translated_editorial"}

\* C1: a fetch-or-skip operation invoked while the file of its key exists makes
\* no page fetch and no LLM call and leaves the file as it was.
C1_SkipWhenCached ==
    (lastOp.op \in FetchOrSkipOps /\ lastOp.existed) =>
        /\ lastOp.fetches = 0
        /\ lastOp.llms = 0
        /\ lastOp.after = lastOp.before

\* C1 happens: save_translated_task has just been invoked for a key whose file
\* was written by an earlier run.
C1_Witness ==
    /\ lastOp.op = "save_translated_task"
    /\ lastOp.existed
    /\ lastOp.path \in DOMAIN snap
    /\ runs = 2

\* C2 (as claimed): no target-language file holds an empty or whitespace-only
\* translation, i.e. an empty result of the translator creates no file.
C2_NoFileForEmptyTranslation ==
    \A p \in DOMAIN fs : p[1] \notin SourceLangs => ~IsBlank(fs[p])

\* C3: a file that exists when a run ends keeps its content through every later
\* run, whatever the site serves then.
C3_CachedFileIsNeverChanged ==
    \A p \in DOMAIN snap : p \in DOMAIN fs /\ fs[p] = snap[p]

\* C3 happens: a later run has reached the key of a file cached by an earlier
\* run, after the site's content for it changed.
C3_Witness ==
    /\ proc # Idle
    /\ lastOp.existed
    /\ lastOp.path \in DOMAIN snap
    /\ snap[lastOp.path].v # upv

\* C4 (as claimed): when no run is in progress, every target-language file holds
\* the final rendered fragment, never the raw translation or the wrapper document.
C4_TargetFileIsFinal ==
    proc = Idle =>
        \A p \in DOMAIN fs :
            p[1] \notin SourceLangs => fs[p].form \in {"rendered", "centered"}

\* the commands after position n of a log
After(log, n) == SubSeq(log, n + 1, Len(log))

\* C10 (as claimed): a publish operation that no environment failure disturbs
\* stages first, commits exactly when the staged tree differs from HEAD, follows
\* the commit by pull --rebase and push, and never commits or pushes otherwise.
C10_StageCommitPullPush ==
    (lastPub.op # "" /\ ~lastPub.injected) =>
        /\ lastPub.staged
        /\ lastPub.committed <=> lastPub.diff
        /\ lastPub.committed =>
             \E n \in 1..Len(lastPub.log) :
                 /\ lastPub.log[n] = "commit"
                 /\ After(lastPub.log, n) = <<"pull --rebase", "push">>
                 /\ \E m \in 1..(n - 1) : lastPub.log[m] \in StagingCmds
        /\ ~lastPub.diff =>
             \A n \in 1..Len(lastPub.log) : lastPub.log[n] \notin {"commit", "push"}

IsPrefix(a, b) == Len(a) <= Len(b) /\ \A n \in 1..Len(a) : a[n] = b[n]

\* the driver script the trail belongs to
Driver == IF proc = Idle THEN exit.script ELSE proc.script

\* the statements of the trail that are states of the daily state machine
Visited ==
    SelectSeq([n \in 1..Len(trail) |-> trail[n].cmd],
              LAMBDA c : c.kind \in {"sleep_until", "run", "wait_contest_end"})

\* wait-for-20:00, participate_today, wait-for-21:00, fetch_and_translate,
\* wait-for-contest-end, fetch_editorial, update_past3, (update_user_editorials)
C5_Order ==
    << Stmt("sleep_until", "", 20), Stmt("run", PT, 0), Stmt("sleep_until", "", 21),
       Stmt("run", FT, 0), Stmt("wait_contest_end", "", 21), Stmt("run", FE, 0),
       Stmt("run", P3, 0), Stmt("run", UUE, 0) >>

\* the day of the month the orchestrator read before its last step, 0 if not yet
C5_DayRead ==
    IF \E n \in 1..Len(trail) : trail[n].cmd.kind = "day_check"
    THEN (CHOOSE e \in SeqRange(trail) : e.cmd.kind = "day_check").day
    ELSE 0

C5_OrderInv ==
    Driver = OD =>
        /\ IsPrefix(Visited, C5_Order)
        /\ Stmt("run", UUE, 0) \in SeqRange(Visited) =>
               (C5_DayRead # 0 /\ C5_DayRead % 7 = 0)
        /\ proc = Idle =>
               /\ C5_DayRead # 0
               /\ Visited = IF C5_DayRead % 7 = 0 THEN C5_Order
                            ELSE SubSeq(C5_Order, 1, Len(C5_Order) - 1)

\* C5: orchestrate_daily.main visits its states in the one fixed order, each at
\* most once; update_user_editorials runs exactly when the day of the month read
\* at that point is divisible by 7; and when every sleep elapses and every
\* subprocess returns, a started run reaches done.
C5_FixedOrderToDone ==
    /\ []C5_OrderInv
    /\ (proc.script = OD) ~> (proc = Idle /\ exit.script = OD)

\* C5 happens: a run of the orchestrator has reached done on a day divisible by
\* 7, update_user_editorials being its last delegated step.
C5_Witness ==
    /\ proc = Idle
    /\ exit.script = OD
    /\ Visited = C5_Order

\* the commands update_past3 runs, in order: three per contest
RECURSIVE C6_Past3Order(_)
C6_Past3Order(cs) ==
    IF cs = <<>> THEN <<>>
    ELSE << Entry(Stmt("run", FT, 0), ContestArg(Head(cs)), 0, 0),
            Entry(Stmt("run", FE, 0), ContestArg(Head(cs)), 0, 0),
            Entry(Stmt("run", UUE, 0), ContestArg(Head(cs)), 0, 0) >>
         \o C6_Past3Order(Tail(cs))

\* the trail without its exit codes
C6_Commands == [n \in 1..Len(trail) |-> [trail[n] EXCEPT !.rc = 0, !.day = 0]]

\* C6: a delegated step that exits non-zero changes nothing in what follows: the
\* same statements run in the same order (in orchestrate_daily the git sync
\* right after the step included), the driver ends only at the end of its
\* program, and every statement keeps each file that existed before it.
C6_FailureIsOnlyLogged ==
    /\ Driver = P3 => IsPrefix(C6_Commands, C6_Past3Order(AllContests))
    /\ (Driver = P3 /\ proc = Idle /\ trail # <<>>) =>
           C6_Commands = C6_Past3Order(AllContests)
    /\ \A n \in 1..Len(trail) :
           (Driver = OD /\ trail[n].cmd.kind = "run" /\ trail[n].rc # 0) =>
               /\ proc = Idle => n < Len(trail)
               /\ n < Len(trail) => trail[n + 1].cmd.kind = "git_sync"
               /\ (n + 1 < Len(trail) /\ trail[n].cmd.script # UUE) =>
                      trail[n + 2].cmd.kind \in {"sleep_until", "run", "day_check"}
    /\ \A p \in DOMAIN snap : p \in DOMAIN fs /\ fs[p] = snap[p]

\* C6 happens: the orchestrator has run to its end although one of its delegated
\* steps exited non-zero before the last one.
C6_Witness ==
    /\ proc = Idle
    /\ exit.script = OD
    /\ \E n \in 1..Len(trail) :
           /\ trail[n].cmd.kind = "run"
           /\ trail[n].rc # 0
           /\ \E m \in (n + 1)..Len(trail) : trail[m].cmd.kind = "run"

\* C7 (as claimed): once the orchestrator has queried the duration, and nothing
\* in the environment has failed, the duration it waits for is the one the
\* contest page shows.
C7_WaitsForContestDuration ==
    (/\ proc.script = OD
     /\ \E n \in 1..Len(trail) : trail[n].cmd.kind = "contest_json"
     /\ faults = MaxFaults) => proc.dmin \in PageDurations

\* C8 (as claimed): fetch_and_translate.py --contest-json changes no file, makes
\* no fetch-to-cache or translation, and ends with a JSON object on stdout.
C8_ContestJsonOnlyReports ==
    /\ (proc.script = FT /\ proc.args.json) => (fs = snap /\ lastOp = NoOp)
    /\ (proc = Idle /\ exit.script = FT /\ exit.args.json /\ exit.rc = 0) => exit.out.json

\* C9 (as claimed): in a run started with --contest c, every per-item operation
\* is for contest c and every file the run has created is under contest c.
C9_OnlyTheGivenContest ==
    (proc # Idle /\ proc.args.contest # NoContest) =>
        /\ lastOp.op # "" => lastOp.contest = proc.args.contest
        /\ \A p \in DOMAIN fs \ DOMAIN snap : p[3] = proc.args.contest

\* C11 (as claimed): a git command that fails during a publish is caught by the
\* publish function; update_user_editorials, which makes no other call that can
\* raise out of main(), still ends normally after it; and every file that was in
\* the cache is still there unchanged.
C11_GitFailureNeverAborts ==
    lastPub.failed =>
        /\ ~lastPub.escaped
        /\ (proc = Idle /\ exit.script = UUE) => exit.rc = 0
        /\ \A p \in DOMAIN snap : p \in DOMAIN fs /\ fs[p] = snap[p]

\* C12 (as claimed): right after a git_sync of the orchestrator in which every
\* git command succeeded, every file of the cache is in the shared repository,
\* whatever happened to the publishes before it.
C12_PublishCatchesUp ==
    (/\ Driver = OD
     /\ trail # <<>>
     /\ trail[Len(trail)].cmd.kind = "git_sync"
     /\ ~lastPub.failed) => git.remote = fs

\* C13 (as claimed): the two user editorials (9, 7) and (10, 7) of one contest
\* are different items, so each has its own source fragment: whenever
\* update_user_editorial or update_user_editorials goes on to translate an item,
\* the source file it reads holds that item and not another one's.
C13_OwnFragmentPerItem ==
    (proc # Idle /\ proc.script \in {UE, UUE} /\ proc.pc = "en") =>
        LET tu == proc.ids[proc.i] IN
        Read(fs, Path("ja", "user_editorial", proc.contest, tu[2])).item =
            Item(proc.contest, "user", tu[1], tu[2])

\* C14 (as claimed): all scripts name the fragment of an item by the same path,
\* so a script fetches and saves the source of an item only when no script has
\* saved it already: after such a save the cache holds the item's source at that
\* one path and nowhere else.
C14_OnePathPerFragment ==
    (lastOp.fetches > 0 /\ lastOp.after.form = "src") =>
        \A p \in DOMAIN fs :
            (fs[p].form = "src" /\ fs[p].item = lastOp.after.item) => p = lastOp.path

\* C15 (as claimed): the ids a script works through, as its id-listing function
\* returned them, are in strictly ascending numeric order (so without
\* duplicates, and 9 before 10): the task ids of fetch_and_translate,
\* fetch_editorial and fetch_latest_ended, the (task, user) pairs of
\* list_user_editorials_in_contest and the ids of list_task_ids_in_contest.
C15_IdsAscending ==
    /\ (proc.script \in {FT, FE, FL}) =>
           \A m, n \in 1..Len(proc.ids) : m < n => proc.ids[m] < proc.ids[n]
    /\ (proc.script = UUE) =>
           /\ \A m, n \in 1..Len(proc.ids) :
                  m < n => IntPairLess(proc.ids[m], proc.ids[n])
           /\ \A c \in Contests : \A l \in ListTaskIdsInContest(c, faults) :
                  \A m, n \in 1..Len(l.ids) : m < n => l.ids[m] < l.ids[n]

\* C16 (as claimed): the user editorials a script works through contain no href
\* of an anchor whose text carries the official-editorial marker, and, when
\* no page fetch has failed, the href of every anchor without it.
C16_OnlyUnmarkedAnchors ==
    (proc.script \in {UE, LC, UUE} /\ proc.pc \in {"ja", "en"}) =>
        /\ \A n \in 1..Len(EditorialAnchors) :
               EditorialAnchors[n].marked =>
                   EditorialAnchors[n].href \notin SeqRange(proc.ids)
        /\ (faults = MaxFaults) =>
               \A n \in 1..Len(EditorialAnchors) :
                   ~EditorialAnchors[n].marked =>
                       EditorialAnchors[n].href \in SeqRange(proc.ids)

\* C17 (as claimed): a source fetch that failed or came back empty never aborts
\* the run: when fetch_and_translate or fetch_editorial ends with exit code 1
\* after working on an item, it is not at an item whose source file is missing.
C17_EmptyFetchNeverAborts ==
    (/\ proc = Idle
     /\ exit.script \in {FT, FE}
     /\ exit.rc = 1
     /\ lastOp.script = exit.script
     /\ lastOp.path # None) =>
        Exists(fs, [lastOp.path EXCEPT ![1] = IF exit.script = FT THEN "jp" ELSE "ja"])

\* C18 (as claimed): a task of the latest contest whose fetch came back empty in
\* one run of fetch_latest_ended, while another task of the contest was saved,
\* has its fetch attempted again by the next run: no run of the script ends
\* normally without a single save_div_innerhtml call while such a task is
\* still without its file.
C18_EmptyFetchIsRetried ==
    (/\ proc = Idle
     /\ exit.script = FL
     /\ exit.rc = 0
     /\ lastOp = NoOp
     /\ latest # NoContest
     /\ DirHasFiles(fs, "ja", "tasks", latest)) =>
        \A t \in SeqRange(TaskLinksOf(latest)) : Exists(fs, Path("ja", "tasks", latest, t))

\* C19 (as claimed): fetch_latest_ended ends with exit code 1 exactly when
\* required configuration is missing (here: "en" is not among the configured
\* languages; the environment variables are set in every run of this model);
\* every other outcome, an unreachable home page included, ends with exit code 0.
C19_ExitOneOnlyForConfiguration ==
    (proc = Idle /\ exit.script = FL) =>
        (exit.rc = 1 <=> LoadLanguagesList(ConfigLanguages).exit)

\* the "languages" lists a config.json may hold
MaxLangs == 3
LanguageCodes == {"en", "fr", "zh"}
ConfigChoices == UNION {[1..n -> LanguageCodes] : n \in 0..MaxLangs}

\* the languages of a list other than "en", in the order of the list
RECURSIVE OthersInOrder(_)
OthersInOrder(cfg) ==
    IF cfg = <<>> THEN <<>>
    ELSE IF Head(cfg) = "en" THEN OthersInOrder(Tail(cfg))
    ELSE <<Head(cfg)>> \o OthersInOrder(Tail(cfg))

C20_EnglishFirstInList ==
    \A cfg \in ConfigChoices :
        LET r == LoadLanguagesList(cfg) IN
        IF "en" \notin SeqRange(cfg) THEN r.exit
        ELSE /\ ~r.exit
             /\ Head(r.langs) = "en"
             /\ "en" \notin SeqRange(Tail(r.langs))
             /\ Tail(r.langs) = OthersInOrder(cfg)

IsTranslation(o) ==
    /\ o.script \in {FT, FE}
    /\ o.op \in {"save_translated_task", "save_translated_explanation",
                 "save_translated_editorial"}

\* C20: load_languages_list exits when "en" is not configured and otherwise
\* returns "en" once and first, then the other languages in configured order;
\* and within one run of fetch_and_translate or fetch_editorial, once a
\* translation into a language other than English has been attempted, no source
\* is saved and no English translation is attempted any more: every English
\* attempt of the run comes before every non-English one.
C20_EnglishBeforeOthers ==
    [][/\ C20_EnglishFirstInList
       /\ (IsTranslation(lastOp) /\ lastOp.path[1] # "en") =>
              ~(lastOp'.script \in {FT, FE} /\ lastOp'.path[1] \in {"en", "jp", "ja"})]_vars

\* a run has translated an item into a language other than English
C20_Witness ==
    /\ IsTranslation(lastOp)
    /\ lastOp.path[1] = "fr"
    /\ lastOp.llms = 1
    /\ Exists(fs, lastOp.path)

\* the file whose existence the batch scripts test before translating the item
\* into English: fetch_and_translate for a task, fetch_editorial for an official
\* editorial, update_user_editorial(s) for a user editorial
BatchKey(script, a) ==
    IF a.kind = "task" THEN Path("en", "problems", a.contest, a.item)
    ELSE IF a.kind = "editorial" THEN Path("en", "editorial", a.contest, a.item)
    ELSE Path("en", "user_editorial", a.contest, IF script = TS THEN a.item ELSE a.user)

\* C21 (as claimed): when translate_specific or translate_with_js, given a kind,
\* a contest and an item (and the user of a user editorial), has ended normally,
\* it has fetched the source of the item again, and the file the batch scripts
\* test for that item holds what the tool wrote.
C21_ForcedRetranslation ==
    (/\ proc = Idle
     /\ exit.script \in {TS, TJ}
     /\ exit.rc = 0
     /\ ~(exit.script = TJ /\ exit.args.kind = "user_editorial" /\ exit.args.user = 0)) =>
        /\ lastOp.fetches = 1
        /\ Exists(fs, BatchKey(exit.script, exit.args))
        /\ fs[BatchKey(exit.script, exit.args)] = lastOp.after

\* C22 (as claimed): a run of update_user_editorials with --limit n fetches and
\* saves the source of at most n user editorials in total, all contests together.
C22_LimitBoundsTheRun ==
    (proc.script = UUE /\ proc.args.limit > 0) =>
        Cardinality({p \in DOMAIN fs \ DOMAIN snap :
                        p[1] = "ja" /\ p[2] = "user_editorial"}) <= proc.args.limit

\* C23 (as claimed): HtmlKatex turns a rendered-math node with annotation s into
\* the literal text $s$, and rendering that text gives a rendered math node (it
\* does not stay text) whose annotation is s again.
C23_PlaceholderRoundTrip ==
    /\ fs[TexPath].form = "placeholder" =>
           fs[TexPath].text = <<"$">> \o snap[TexPath].tex \o <<"$">>
    /\ fs[TexPath].form # "text"
    /\ fs[TexPath].form = "math" => fs[TexPath].tex = snap[TexPath].tex

\* C24: the retry of ask_gpt has no maximum number of attempts, so a run of
\* update_user_editorial.py never ends with an exception that comes out of
\* ask_gpt: with a browser and a site that work, the run either goes on or
\* ends with exit status 0.
C24_RetryWithoutLimit ==
    (proc = Idle /\ exit.script = UE) => exit.rc = 0

\* C25: ask_gpt of update_user_editorials.py makes at most five API calls for
\* one item; when a call succeeds the stored English file is the translation of
\* that item, and when all five fail no English file is written, nothing is
\* raised, and the run goes on with the item after it (or ends the contest).
C25_FiveAttemptsThenSkip ==
    /\ (proc.script = UUE => proc.tries < 5)
    /\ (lastOp.script = UUE /\ lastOp.op = "translate_en" /\ lastOp.llms >= 1) =>
          /\ lastOp.llms <= 5
          /\ lastOp.after # Absent =>
                /\ lastOp.after.lang = "en"
                /\ Exists(fs, Path("ja", "user_editorial", lastOp.path[3], lastOp.path[4]))
                /\ lastOp.after.item =
                      fs[Path("ja", "user_editorial", lastOp.path[3], lastOp.path[4])].item
                /\ fs[lastOp.path] = lastOp.after
          /\ lastOp.after = Absent =>
                /\ ~Exists(fs, lastOp.path)
                /\ proc = Idle => exit.rc = 0
                /\ proc # Idle =>
                      /\ proc.script = UUE
                      /\ proc.pc \in {"ja", "list"}
                      /\ (proc.pc = "ja" /\ proc.contest = lastOp.contest) =>
                            /\ proc.i > 1
                            /\ proc.ids[proc.i - 1][2] = lastOp.path[4]

\* five calls failed, no English file, and the run is at the next item
C25_Witness ==
    /\ lastOp.script = UUE /\ lastOp.op = "translate_en" /\ lastOp.llms = 5
    /\ lastOp.after = Absent
    /\ ~Exists(fs, lastOp.path)
    /\ Exists(fs, Path("ja", "user_editorial", lastOp.path[3], lastOp.path[4]))
    /\ proc.script = UUE /\ proc.pc = "ja" /\ proc.i > 1

\* C26: a content extractor returns the markup of the target content node or
\* the empty string, never the markup of another node: whatever a step stores
\* from a page it has just fetched is the content node of the item.
C26_TargetNodeOrNothing ==
    (lastOp.fetches >= 1 /\ lastOp.after # lastOp.before /\ lastOp.path[1] = "ja") =>
        lastOp.after.form = "src"

\* C27: once an item has been processed, every display-mode node of its stored
\* translation is enclosed in a centering container: no stored file is a
\* rendered document whose display math is still unwrapped.
C27_DisplayMathCentered ==
    \A p \in DOMAIN fs : p[1] # "ja" => fs[p].form # "rendered"

\* C28: with a single sequential worker a key is never translated (or fetched)
\* again once its file exists; a translation of a key whose file exists at the
\* time of the write happens only when a second process works on the same
\* cache tree.
C28_OneWriterPerKey ==
    (lastOp.script = FE /\ (lastOp.llms >= 1 \/ lastOp.fetches >= 1) /\ lastOp.existed) =>
        peer # Idle

\* both processes passed the tests of lines 342 and 309 for one key and both
\* called the API: the second answer has just been written over the wrapper
\* document the first process left a moment ago
C28_Witness ==
    /\ peer # Idle
    /\ faults = MaxFaults
    /\ lastOp.script = FE /\ lastOp.op = "save_translated_editorial"
    /\ lastOp.llms = 1
    /\ lastOp.existed
    /\ lastOp.before.form = "wrapped"
    /\ fs[lastOp.path] = lastOp.after
    /\ lastOp.after.form = "raw"

\* both processes passed the test of line 280 for one source key and both
\* fetched the page: the second copy has just been written over the first
C28_FetchedTwice ==
    /\ peer # Idle
    /\ lastOp.script = FE /\ lastOp.op = "save_jp_editorial"
    /\ lastOp.fetches = 1
    /\ lastOp.existed
    /\ lastOp.before.form = "src"
    /\ fs[lastOp.path] = lastOp.after

\* C29: in orchestrate_daily participate_today is never started before 20:00
\* JST and fetch_and_translate never before 21:00 JST, and the wait before
\* fetch_editorial ends at 21:00 JST plus dmin minutes of the day on which the
\* orchestrator was started, and is skipped when that instant has passed.
C29_TimeGates ==
    [][ /\ (ODRunning("run") /\ ODAt(proc).script = PT) => now.min >= 20 * 60
        /\ (ODRunning("run") /\ ODAt(proc).script = FT) => now.min >= 21 * 60
        /\ ODRunning("wait_contest_end") =>
              LET end_time == Advance(Clock(since.day, 21 * 60), proc.dmin) IN
              now' = IF Instant(now) < Instant(end_time) THEN end_time ELSE now ]_vars

\* C30: whenever the cache holds a target-language fragment of an item, it
\* holds the source-language fragment of the same item too.
C30_SourceBehindTranslation ==
    \A p \in DOMAIN fs :
        (HasItem(fs[p]) /\ fs[p].lang # "ja") =>
            \E q \in DOMAIN fs :
                HasItem(fs[q]) /\ fs[q].lang = "ja" /\ fs[q].item = fs[p].item
====
